---- MODULE Spec2Model ----
(***************************************************************************)
(* Code-fence rendering adapters of mdex (native/comrak_nif):              *)
(* LumisAdapter (lumis_adapter.rs) and AutumnusAdapter                     *)
(* (autumnus_adapter.rs), driven by the host renderer through the three    *)
(* callbacks write_pre_tag, write_code_tag and write_highlighted.          *)
(*                                                                         *)
(* Text is a sequence of one-character strings.  Option<T> is a sequence   *)
(* of length 0 (None) or 1 (Some).                                         *)
(***************************************************************************)
EXTENDS Integers, Sequences, FiniteSets, TLC

None == <<>>
Some(x) == <<x>>
IsSome(o) == o # <<>>
Unwrap(o) == o[1]
\* Option::or / or_else
OrElse(o, p) == IF IsSome(o) THEN o ELSE p

----------------------------------------------------------------------------
(* Text helpers *)

RECURSIVE Join(_)
\* the String made of the characters of s
Join(s) == IF s = <<>> THEN "" ELSE Head(s) \o Join(Tail(s))

WhiteSpace == {" ", "\t", "\n", "\r"}

RECURSIVE TrimStart(_)
TrimStart(s) ==
    IF s # <<>> /\ Head(s) \in WhiteSpace THEN TrimStart(Tail(s)) ELSE s

RECURSIVE TrimEnd(_)
TrimEnd(s) ==
    IF s # <<>> /\ s[Len(s)] \in WhiteSpace
    THEN TrimEnd(SubSeq(s, 1, Len(s) - 1))
    ELSE s

\* str::trim
Trim(s) == TrimEnd(TrimStart(s))

\* position of the first c in s, 0 when there is none
IndexOf(s, c) ==
    IF \E i \in 1..Len(s) : s[i] = c
    THEN CHOOSE i \in 1..Len(s) : s[i] = c /\ \A j \in 1..(i - 1) : s[j] # c
    ELSE 0

\* str::split_once(c): None, or Some(<<before, after>>) around the first c
split_once(s, c) ==
    LET i == IndexOf(s, c)
    IN  IF i = 0 THEN None
        ELSE Some(<<SubSeq(s, 1, i - 1), SubSeq(s, i + 1, Len(s))>>)

RECURSIVE Split(_, _)
\* str::split(c): the pieces between the occurrences of c (never empty)
Split(s, c) ==
    LET i == IndexOf(s, c)
    IN  IF i = 0 THEN <<s>>
        ELSE <<SubSeq(s, 1, i - 1)>> \o Split(SubSeq(s, i + 1, Len(s)), c)

----------------------------------------------------------------------------
(* shlex::split: POSIX-shell word splitting.  A word ends at unquoted      *)
(* white space; '...' is literal; "..." honours backslash before " \ $;    *)
(* an unquoted backslash takes the next character literally; # at the      *)
(* start of a word opens a comment.  An unterminated quote or a trailing   *)
(* backslash makes the whole split fail (None).                            *)

ShlexSpace == {" ", "\t", "\n"}

\* position of the first character of s at or after i that is in set,
\* Len(s) + 1 when there is none
NextIn(s, i, set) ==
    IF \E j \in i..Len(s) : s[j] \in set
    THEN CHOOSE j \in i..Len(s) : s[j] \in set /\ \A k \in i..(j - 1) : s[k] \notin set
    ELSE Len(s) + 1

RECURSIVE ShlexWord(_, _, _, _, _)
\* the scanner at position i of s; mode: "out" between words, "word", "sq",
\* "dq", "comment"; cur is the word being built, acc the words so far
ShlexWord(s, i, mode, cur, acc) ==
    IF i > Len(s) THEN
        CASE mode = "out"     -> Some(acc)
          [] mode = "comment" -> Some(acc)
          [] mode = "word"    -> Some(Append(acc, cur))
          [] OTHER            -> None
    ELSE
        LET c == s[i]
        IN  CASE mode = "comment" ->
                    ShlexWord(s, NextIn(s, i, {"\n"}) + 1, "out", <<>>, acc)
              [] mode = "sq" ->
                    LET j == NextIn(s, i, {"'"})
                    IN  IF j > Len(s) THEN None
                        ELSE ShlexWord(s, j + 1, "word", cur \o SubSeq(s, i, j - 1), acc)
              [] mode = "dq" ->
                    LET j == NextIn(s, i, {"\"", "\\"})
                        got == cur \o SubSeq(s, i, j - 1)
                    IN  IF j > Len(s) THEN None
                        ELSE IF s[j] = "\"" THEN ShlexWord(s, j + 1, "word", got, acc)
                        ELSE IF j = Len(s) THEN None
                        ELSE IF s[j + 1] \in {"\"", "\\", "$"}
                             THEN ShlexWord(s, j + 2, "dq", Append(got, s[j + 1]), acc)
                        ELSE IF s[j + 1] = "\n"
                             THEN ShlexWord(s, j + 2, "dq", got, acc)
                        ELSE ShlexWord(s, j + 2, "dq", got \o <<s[j], s[j + 1]>>, acc)
              [] OTHER ->
                    IF c \in ShlexSpace THEN
                        IF mode = "word"
                        THEN ShlexWord(s, i + 1, "out", <<>>, Append(acc, cur))
                        ELSE ShlexWord(s, i + 1, "out", <<>>, acc)
                    ELSE IF c = "#" /\ mode = "out"
                         THEN ShlexWord(s, i + 1, "comment", <<>>, acc)
                    ELSE IF c = "'" THEN ShlexWord(s, i + 1, "sq", cur, acc)
                    ELSE IF c = "\"" THEN ShlexWord(s, i + 1, "dq", cur, acc)
                    ELSE IF c = "\\" THEN
                        IF i = Len(s) THEN None
                        ELSE IF s[i + 1] = "\n" THEN ShlexWord(s, i + 2, mode, cur, acc)
                        ELSE ShlexWord(s, i + 2, "word", Append(cur, s[i + 1]), acc)
                    ELSE LET j == NextIn(s, i + 1, ShlexSpace \cup {"'", "\"", "\\"})
                         IN  ShlexWord(s, j, "word", cur \o SubSeq(s, i, j - 1), acc)

\* Option<Vec<String>>
shlex_split(s) == ShlexWord(s, 1, "out", <<>>, <<>>)

----------------------------------------------------------------------------
(* Decorator parser *)

\* HashMap::insert: the entry for k is replaced
\* variant: an entry already present is kept
MapInsert_keep_first(m, k, v) ==
    [x \in (DOMAIN m) \cup {k} |-> IF x \in DOMAIN m THEN m[x] ELSE v]

MapInsert(m, k, v) ==
    [x \in (DOMAIN m) \cup {k} |-> IF x = k THEN v ELSE m[x]]

EmptyMap == [x \in {} |-> <<>>]

RECURSIVE InsertTokens(_, _)
\* the for loop of parse_custom_attributes: keys are Strings, values text
InsertTokens(tokens, attributes) ==
    IF tokens = <<>> THEN attributes
    ELSE LET token == Head(tokens)
             kv == split_once(token, "=")
         IN  IF IsSome(kv)
             THEN InsertTokens(Tail(tokens),
                      MapInsert(attributes, Join(Trim(Unwrap(kv)[1])), Unwrap(kv)[2]))
             ELSE InsertTokens(Tail(tokens),
                      MapInsert(attributes, Join(Trim(token)), <<"t", "r", "u", "e">>))

\* LumisAdapter::parse_custom_attributes and AutumnusAdapter::parse_custom_attributes
parse_custom_attributes(info_string) ==
    LET tokens == shlex_split(info_string)
    IN  IF ~IsSome(tokens) THEN None
        ELSE IF Unwrap(tokens) = <<>> THEN None
        ELSE LET attributes == InsertTokens(Unwrap(tokens), EmptyMap)
             IN  IF DOMAIN attributes = {} THEN None ELSE Some(attributes)

\* HashMap::get
Get(m, k) == IF k \in DOMAIN m THEN Some(m[k]) ELSE None

----------------------------------------------------------------------------
(* Text constants *)

cTrue == <<"t", "r", "u", "e">>
cTheme == <<"t", "h", "e", "m", "e">>
cNord == <<"n", "o", "r", "d">>
cNope == <<"n", "o", "p", "e">>
cGithubLight == <<"g", "i", "t", "h", "u", "b", "_", "l", "i", "g", "h", "t">>
cPreClass == <<"p", "r", "e", "_", "c", "l", "a", "s", "s">>
cHighlightLines ==
    <<"h", "i", "g", "h", "l", "i", "g", "h", "t", "_", "l", "i", "n", "e", "s">>
cIncludeHighlights ==
    <<"i", "n", "c", "l", "u", "d", "e", "_">> \o
    <<"h", "i", "g", "h", "l", "i", "g", "h", "t", "s">>
cRust == <<"r", "u", "s", "t">>
cElixir == <<"e", "l", "i", "x", "i", "r">>
cPlaintext == <<"p", "l", "a", "i", "n", "t", "e", "x", "t">>
cLanguagePrefix == <<"l", "a", "n", "g", "u", "a", "g", "e", "-">>

----------------------------------------------------------------------------
(* Theme registry (lumis::themes / autumnus::themes) *)

ThemeNord ==
    [name |-> cNord, appearance |-> "Dark", highlighted |-> None]
ThemeGithubLight ==
    [name |-> cGithubLight, appearance |-> "Light",
     highlighted |-> Some("background-color: #dae9f9;")]
\* a theme built from structured configuration (ExTheme), not in the registry
ThemeCustom ==
    [name |-> <<"D", "e", "L", "i", "g", "h", "t">>, appearance |-> "Dark",
     highlighted |-> None]

Registry == {ThemeNord, ThemeGithubLight}

\* themes::get(name): Result<Theme, NotFound> as [ok, theme]
themes_get(name) ==
    IF \E t \in Registry : t.name = name
    THEN [ok |-> TRUE, theme |-> Some(CHOOSE t \in Registry : t.name = name)]
    ELSE [ok |-> FALSE, theme |-> None]

\* Result::ok
ResultOk(r) == IF r.ok THEN r.theme ELSE None

----------------------------------------------------------------------------
(* Languages (Language::guess of the highlighter crates) *)

StartsWith(s, p) == Len(s) >= Len(p) /\ SubSeq(s, 1, Len(p)) = p

\* str::strip_prefix
strip_prefix(s, p) ==
    IF StartsWith(s, p) THEN Some(SubSeq(s, Len(p) + 1, Len(s))) ELSE None

\* Language::guess(hint, source): a language named by the hint, else one
\* sniffed from the first line of the source, else PlainText
Language_guess(hint, source) ==
    IF hint = cRust THEN "Rust"
    ELSE IF hint = cElixir THEN "Elixir"
    ELSE IF StartsWith(source, <<"#", "!">>) THEN "Bash"
    ELSE "PlainText"

\* LumisAdapter::language_from_attrs and AutumnusAdapter::get_language
language_from_attrs(attributes) ==
    IF "lang" \in DOMAIN attributes
    THEN Language_guess(attributes["lang"], <<>>)
    ELSE IF "class" \in DOMAIN attributes
    THEN LET language == strip_prefix(attributes["class"], cLanguagePrefix)
         IN  Language_guess(IF IsSome(language) THEN Unwrap(language) ELSE cPlaintext,
                            <<>>)
    ELSE Language_guess(cPlaintext, <<>>)

\* LumisAdapter::custom_attrs and AutumnusAdapter::get_custom_attrs
custom_attrs(attributes) ==
    IF "data-meta" \in DOMAIN attributes
    THEN parse_custom_attributes(attributes["data-meta"])
    ELSE None

----------------------------------------------------------------------------
(* Formatter configurations (ExFormatterOption / autumnus FormatterOption) *)

Single(n) == [kind |-> "Single", start |-> n, end |-> n]
Range(a, b) == [kind |-> "Range", start |-> a, end |-> b]
ThemeString(name) == [tag |-> "String", name |-> name]
ThemeValue(t) == [tag |-> "Theme", theme |-> t]

HtmlInline(t, pc, ih, hl) ==
    [kind |-> "HtmlInline", theme |-> t, pre_class |-> pc, italic |-> FALSE,
     include_highlights |-> ih, highlight_lines |-> hl]
HtmlLinked(pc, hl) ==
    [kind |-> "HtmlLinked", theme |-> None, pre_class |-> pc, italic |-> FALSE,
     include_highlights |-> FALSE, highlight_lines |-> hl]
HtmlMultiThemes(pc, ih, hl) ==
    [kind |-> "HtmlMultiThemes", theme |-> None, pre_class |-> pc, italic |-> FALSE,
     include_highlights |-> ih, highlight_lines |-> hl]
Terminal(t) ==
    [kind |-> "Terminal", theme |-> t, pre_class |-> None, italic |-> FALSE,
     include_highlights |-> FALSE, highlight_lines |-> None]

\* ExHtmlInlineHighlightLines: style is None, Some(Theme) or Some(Style{style})
InlineHl(lines, style, class) == [lines |-> lines, style |-> style, class |-> class]
\* ExHtmlLinkedHighlightLines: class is a String
LinkedHl(lines, class) == [lines |-> lines, style |-> None, class |-> class]
StyleTheme == [tag |-> "Theme", style |-> ""]
StyleLiteral(st) == [tag |-> "Style", style |-> st]

\* ExFormatterOption::default()
DefaultFormatter == HtmlInline(None, None, FALSE, None)

LumisConfigs ==
    { DefaultFormatter,
      HtmlInline(Some(ThemeString(cNord)), Some("default-pre-class"), FALSE,
                 Some(InlineHl(<<Single(2)>>, Some(StyleTheme), None))),
      HtmlInline(Some(ThemeString(cNope)), None, TRUE, None),
      HtmlInline(Some(ThemeValue(ThemeCustom)), None, FALSE,
                 Some(InlineHl(<<Single(1)>>, Some(StyleTheme), None))),
      HtmlLinked(None, Some(LinkedHl(<<Range(1, 2)>>, "hl"))),
      HtmlMultiThemes(None, TRUE, None),
      Terminal(Some(ThemeValue(ThemeCustom))),
      Terminal(None) }

\* autumnus FormatterOption carries an already resolved &Theme
AutumnusConfigs ==
    { DefaultFormatter,
      HtmlInline(Some(ThemeValue(ThemeNord)), Some("default-pre-class"), FALSE, None),
      HtmlLinked(None, None),
      Terminal(None) }

----------------------------------------------------------------------------
(* Resolvers of LumisAdapter.  stored is the value of stored_attrs that    *)
(* the method reads under the lock.                                        *)

\* LumisAdapter::theme_from_formatter
\* variant: a built-in default theme stands in when none is resolved
theme_from_formatter_defaulting(config) ==
    IF config.kind \in {"HtmlInline", "Terminal"} /\ IsSome(config.theme)
    THEN LET t == Unwrap(config.theme)
         IN  IF t.tag = "Theme" THEN Some(t.theme)
             ELSE OrElse(ResultOk(themes_get(t.name)), Some(ThemeNord))
    ELSE Some(ThemeNord)

theme_from_formatter(config) ==
    IF config.kind \in {"HtmlInline", "Terminal"} /\ IsSome(config.theme)
    THEN LET t == Unwrap(config.theme)
         IN  IF t.tag = "Theme" THEN Some(t.theme) ELSE ResultOk(themes_get(t.name))
    ELSE None

\* LumisAdapter::pre_class
pre_class(config) ==
    IF config.kind \in {"HtmlInline", "HtmlLinked", "HtmlMultiThemes"}
    THEN config.pre_class
    ELSE None

\* LumisAdapter::italic_enabled
italic_enabled(config) ==
    IF config.kind \in {"HtmlInline", "HtmlMultiThemes"} THEN config.italic ELSE FALSE

\* LumisAdapter::should_include_highlights
should_include_highlights(config, stored) ==
    IF IsSome(stored) /\ "include_highlights" \in DOMAIN Unwrap(stored)
    THEN TRUE
    ELSE IF config.kind \in {"HtmlInline", "HtmlMultiThemes"}
         THEN config.include_highlights
         ELSE FALSE

\* LumisAdapter::decorator_theme
\* variant: the decorator theme is never consulted
decorator_theme_ignored(stored) == None

\* variant: an unregistered decorator theme name yields a default theme
decorator_theme_defaulting(stored) ==
    IF IsSome(stored) /\ "theme" \in DOMAIN Unwrap(stored)
    THEN OrElse(ResultOk(themes_get(Unwrap(stored)["theme"])), Some(ThemeNord))
    ELSE None

decorator_theme(stored) ==
    IF IsSome(stored) /\ "theme" \in DOMAIN Unwrap(stored)
    THEN ResultOk(themes_get(Unwrap(stored)["theme"]))
    ELSE None

\* LumisAdapter::decorator_pre_class
\* variant: the decorator pre_class is never consulted
decorator_pre_class_ignored(stored) == None

decorator_pre_class(stored) ==
    IF IsSome(stored) /\ "pre_class" \in DOMAIN Unwrap(stored)
    THEN Some(Join(Unwrap(stored)["pre_class"]))
    ELSE None

----------------------------------------------------------------------------
(* Line-range parser *)

Digits == {"0", "1", "2", "3", "4", "5", "6", "7", "8", "9"}
DigitValue(c) ==
    CASE c = "0" -> 0 [] c = "1" -> 1 [] c = "2" -> 2 [] c = "3" -> 3 [] c = "4" -> 4
      [] c = "5" -> 5 [] c = "6" -> 6 [] c = "7" -> 7 [] c = "8" -> 8 [] c = "9" -> 9

RECURSIVE DecimalValue(_)
DecimalValue(s) ==
    IF s = <<>> THEN 0
    ELSE 10 * DecimalValue(SubSeq(s, 1, Len(s) - 1)) + DigitValue(s[Len(s)])

\* str::parse::<usize>: decimal digits after an optional '+', as Option
parse_usize(s) ==
    LET d == IF s # <<>> /\ Head(s) = "+" THEN Tail(s) ELSE s
    IN  IF d # <<>> /\ \A i \in 1..Len(d) : d[i] \in Digits
        THEN Some(DecimalValue(d))
        ELSE None

\* variant: s..e, the end excluded
RangeInclusive_end_excluded(a, b) == [i \in 1..(IF b > a THEN b - a ELSE 0) |-> a + i - 1]

\* s..=e collected: empty when s > e
RangeInclusive(a, b) == [i \in 1..(IF b >= a THEN b - a + 1 ELSE 0) |-> a + i - 1]

\* variant: a range yields its two end points only
LinesOfPart_endpoints_only(p) ==
    LET part == Trim(p)
        se == split_once(part, "-")
    IN  IF IsSome(se)
        THEN LET a == parse_usize(Trim(Unwrap(se)[1]))
                 b == parse_usize(Trim(Unwrap(se)[2]))
             IN  IF IsSome(a) /\ IsSome(b)
                 THEN IF Unwrap(a) < Unwrap(b) THEN <<Unwrap(a), Unwrap(b)>>
                      ELSE IF Unwrap(a) = Unwrap(b) THEN <<Unwrap(a)>>
                      ELSE <<>>
                 ELSE <<>>
        ELSE LET n == parse_usize(part)
             IN  IF IsSome(n) THEN <<Unwrap(n)>> ELSE <<>>

\* the body of the for loop of parse_highlight_lines for one part
LinesOfPart(p) ==
    LET part == Trim(p)
        se == split_once(part, "-")
    IN  IF IsSome(se)
        THEN LET a == parse_usize(Trim(Unwrap(se)[1]))
                 b == parse_usize(Trim(Unwrap(se)[2]))
             IN  IF IsSome(a) /\ IsSome(b)
                 THEN RangeInclusive(Unwrap(a), Unwrap(b))
                 ELSE <<>>
        ELSE LET n == parse_usize(part)
             IN  IF IsSome(n) THEN <<Unwrap(n)>> ELSE <<>>

RECURSIVE ConcatLines(_)
ConcatLines(parts) ==
    IF parts = <<>> THEN <<>> ELSE LinesOfPart(Head(parts)) \o ConcatLines(Tail(parts))

\* LumisAdapter::parse_highlight_lines
parse_highlight_lines(line_spec) == ConcatLines(Split(line_spec, ","))

RECURSIVE convert_line_specs(_)
\* LumisAdapter::convert_line_specs
convert_line_specs(lines) ==
    IF lines = <<>> THEN <<>>
    ELSE LET spec == Head(lines)
         IN  (IF spec.kind = "Single" THEN <<spec.start>>
              ELSE RangeInclusive(spec.start, spec.end))
             \o convert_line_specs(Tail(lines))

----------------------------------------------------------------------------
(* Highlight-line resolver of LumisAdapter *)

HighlightConfig(lines, style, class) ==
    [lines |-> lines, style |-> style, class |-> class]

\* str::to_lowercase, for the capitals of the theme names in use
LowerChar(c) == CASE c = "D" -> "d" [] c = "L" -> "l" [] OTHER -> c
to_lowercase(s) == [i \in 1..Len(s) |-> LowerChar(s[i])]

\* str::contains
Contains(s, sub) ==
    \E i \in 1..(Len(s) - Len(sub) + 1) : SubSeq(s, i, i + Len(sub) - 1) = sub

\* is_light of highlight_lines_config / formatter_highlight_lines_config
IsLight(t) ==
    t.appearance = "Light" \/ Contains(to_lowercase(t.name), <<"l", "i", "g", "h", "t">>)

FallbackBackground(is_light) ==
    IF is_light THEN "background-color: #e7eaf0;" ELSE "background-color: #3b4252;"

\* LumisAdapter::formatter_highlight_lines_config
formatter_highlight_lines_config(config, theme) ==
    IF config.kind \in {"HtmlInline", "HtmlMultiThemes"} /\ IsSome(config.highlight_lines)
    THEN LET hl == Unwrap(config.highlight_lines)
             style ==
                 IF ~IsSome(hl.style) THEN None
                 ELSE IF Unwrap(hl.style).tag = "Theme"
                 THEN IF IsSome(theme) /\ IsSome(Unwrap(theme).highlighted)
                      THEN Unwrap(theme).highlighted
                      ELSE Some(FallbackBackground(IsSome(theme) /\ IsLight(Unwrap(theme))))
                 ELSE Some(Unwrap(hl.style).style)
         IN  Some(HighlightConfig(convert_line_specs(hl.lines), style, hl.class))
    ELSE IF config.kind = "HtmlLinked" /\ IsSome(config.highlight_lines)
    THEN LET hl == Unwrap(config.highlight_lines)
         IN  Some(HighlightConfig(convert_line_specs(hl.lines), None, Some(hl.class)))
    ELSE None

\* variant: decorator lines that name no line fall back to the formatter's
highlight_lines_config_fallback(config, stored, theme) ==
    IF IsSome(stored) /\ "highlight_lines" \in DOMAIN Unwrap(stored)
       /\ parse_highlight_lines(Unwrap(stored)["highlight_lines"]) # <<>>
    THEN LET attrs == Unwrap(stored)
             is_linked == config.kind = "HtmlLinked"
         IN  Some(HighlightConfig(
                 parse_highlight_lines(attrs["highlight_lines"]),
                 IF is_linked THEN None
                 ELSE IF IsSome(theme)
                      THEN Some(FallbackBackground(IsLight(Unwrap(theme))))
                      ELSE None,
                 IF is_linked THEN Some("highlighted") ELSE None))
    ELSE formatter_highlight_lines_config(config, theme)

\* LumisAdapter::highlight_lines_config
highlight_lines_config(config, stored, theme) ==
    IF IsSome(stored) /\ "highlight_lines" \in DOMAIN Unwrap(stored)
    THEN LET attrs == Unwrap(stored)
             lines == parse_highlight_lines(attrs["highlight_lines"])
             is_linked == config.kind = "HtmlLinked"
             class ==
                 IF "highlight_lines_class" \in DOMAIN attrs
                 THEN Some(Join(attrs["highlight_lines_class"]))
                 ELSE IF is_linked THEN Some("highlighted") ELSE None
             fromAttr ==
                 IF "highlight_lines_style" \in DOMAIN attrs
                 THEN IF Join(attrs["highlight_lines_style"]) = "theme"
                      THEN IF IsSome(theme) THEN Unwrap(theme).highlighted ELSE None
                      ELSE Some(Join(attrs["highlight_lines_style"]))
                 ELSE None
             style ==
                 IF IsSome(fromAttr) THEN fromAttr
                 ELSE IF is_linked THEN None
                 ELSE IF IsSome(theme)
                      THEN Some(FallbackBackground(IsLight(Unwrap(theme))))
                      ELSE None
         IN  Some(HighlightConfig(lines, style, class))
    ELSE formatter_highlight_lines_config(config, theme)

----------------------------------------------------------------------------
(* Body assembly of LumisAdapter::write_highlighted.  The assembled output *)
(* is a sequence of atoms: a source character, an escaped character, or a  *)
(* piece of span markup.  An event is [start, end, scope], the byte range  *)
(* start..end of the source (0-based, end exclusive).                      *)

\* the HTML escaping done inside html::span_*
EscapeChar(c) ==
    CASE c = "<" -> "&lt;" [] c = ">" -> "&gt;" [] c = "&" -> "&amp;" [] OTHER -> c
Escape(text) == [i \in 1..Len(text) |-> EscapeChar(text[i])]

\* &source[a..b]
Slice(source, a, b) == SubSeq(source, a + 1, b)

\* html::span_linked
span_linked(text, scope) ==
    <<"<span class=\"" \o scope \o "\">">> \o Escape(text) \o <<"</span>">>

\* html::span_multi_themes
span_multi_themes(text, scope) ==
    <<"<span style=\"--lumis:" \o scope \o "\">">> \o Escape(text) \o <<"</span>">>

\* html::span_inline: styled by the theme, bare escaped text without one
span_inline(text, scope, theme, include_highlights) ==
    IF IsSome(theme)
    THEN <<"<span" \o (IF include_highlights
                       THEN " data-highlight=\"" \o scope \o "\""
                       ELSE "")
                   \o " style=\"" \o Join(Unwrap(theme).name) \o ":" \o scope \o "\">">>
         \o Escape(text) \o <<"</span>">>
    ELSE Escape(text)

\* variant: the Linked backend emits linked spans for plaintext too
SpanFor_linked_always(text, scope, config, is_plaintext, theme, include_highlights) ==
    IF config.kind = "HtmlLinked"
    THEN span_linked(text, scope)
    ELSE IF config.kind = "HtmlMultiThemes"
    THEN span_multi_themes(text, scope)
    ELSE span_inline(text, scope, theme, include_highlights)

\* the span chosen in the highlight_iter callback
SpanFor(text, scope, config, is_plaintext, theme, include_highlights) ==
    IF config.kind = "HtmlLinked" /\ ~is_plaintext
    THEN span_linked(text, scope)
    ELSE IF config.kind = "HtmlMultiThemes"
    THEN span_multi_themes(text, scope)
    ELSE span_inline(text, scope, theme, include_highlights)

RECURSIVE PushEvents_without_gap(_, _, _, _, _, _, _, _)
\* variant: the text between two events is not copied
PushEvents_without_gap(source, events, html_output, last_end, config, is_plaintext, theme, include_highlights) ==
    IF events = <<>> THEN [html |-> html_output, last_end |-> last_end]
    ELSE LET e == Head(events)
             text == Slice(source, e.start, e.end)
             piece == IF Trim(text) = <<>>
                      THEN text
                      ELSE SpanFor(text, e.scope, config, is_plaintext, theme,
                                   include_highlights)
         IN  PushEvents_without_gap(source, Tail(events), html_output \o piece, e.end,
                                    config, is_plaintext, theme, include_highlights)

RECURSIVE PushEvents(_, _, _, _, _, _, _, _)
\* the highlight_iter callback run over the events; yields [html, last_end]
PushEvents(source, events, html_output, last_end, config, is_plaintext, theme, include_highlights) ==
    IF events = <<>> THEN [html |-> html_output, last_end |-> last_end]
    ELSE LET e == Head(events)
             text == Slice(source, e.start, e.end)
             gap == IF e.start > last_end
                    THEN Slice(source, last_end, e.start)
                    ELSE <<>>
             piece == IF Trim(text) = <<>>
                      THEN text
                      ELSE SpanFor(text, e.scope, config, is_plaintext, theme,
                                   include_highlights)
         IN  PushEvents(source, Tail(events), html_output \o gap \o piece, e.end,
                        config, is_plaintext, theme, include_highlights)

\* html_output after the callback and the trailing text
AssembleHtml(source, events, config, is_plaintext, theme, include_highlights) ==
    LET r == PushEvents(source, events, <<>>, 0, config, is_plaintext, theme,
                        include_highlights)
    IN  IF r.last_end < Len(source)
        THEN r.html \o Slice(source, r.last_end, Len(source))
        ELSE r.html

\* one line of str::lines: the line ending "\n" or "\r\n" is removed
StripCr(line) ==
    IF line # <<>> /\ line[Len(line)] = "\r"
    THEN SubSeq(line, 1, Len(line) - 1)
    ELSE line

\* variant: the pieces of split('\n'), the final empty piece included
lines_as_split(s) == Split(s, "\n")

RECURSIVE Lines(_)
\* str::lines: no final empty line after a trailing newline
Lines(s) ==
    IF s = <<>> THEN <<>>
    ELSE LET i == IndexOf(s, "\n")
         IN  IF i = 0 THEN <<s>>
             ELSE <<StripCr(SubSeq(s, 1, i - 1))>> \o Lines(SubSeq(s, i + 1, Len(s)))

SeqContains(s, x) == \E i \in 1..Len(s) : s[i] = x

\* variant: the highlight is applied without looking the line number up
LineWrapper_every_line(i, line, highlight_config) ==
    LET line_number == i
        hit == IsSome(highlight_config)
        hc == Unwrap(highlight_config)
    IN  [class_name |-> IF hit /\ IsSome(hc.class)
                        THEN "line" \o " " \o Unwrap(hc.class)
                        ELSE "line",
         style_attr |-> IF hit /\ IsSome(hc.style)
                        THEN " style=\"" \o Unwrap(hc.style) \o "\""
                        ELSE "",
         line_number |-> line_number,
         line |-> line]

\* one iteration of the for loop over html_output.lines().enumerate()
LineWrapper(i, line, highlight_config) ==
    LET line_number == i
        hit == IsSome(highlight_config)
               /\ SeqContains(Unwrap(highlight_config).lines, line_number)
        hc == Unwrap(highlight_config)
    IN  [class_name |-> IF hit /\ IsSome(hc.class)
                        THEN "line" \o " " \o Unwrap(hc.class)
                        ELSE "line",
         style_attr |-> IF hit /\ IsSome(hc.style)
                        THEN " style=\"" \o Unwrap(hc.style) \o "\""
                        ELSE "",
         line_number |-> line_number,
         line |-> line]

\* the <div class="line" ...> elements written by write_highlighted
WrapLines(html_output, highlight_config) ==
    LET ls == Lines(html_output)
    IN  [i \in 1..Len(ls) |-> LineWrapper(i, ls[i], highlight_config)]

----------------------------------------------------------------------------
(* Builders of AutumnusAdapter.  custom is the Option<&HashMap> handed to   *)
(* the configure_* method.  The built formatter is external: a phase's     *)
(* output is described by the builder it was built from.                   *)

\* AutumnusAdapter::resolve_theme followed by .ok().flatten()
resolve_theme(attrs) ==
    IF "theme" \in DOMAIN attrs THEN ResultOk(themes_get(attrs["theme"])) ELSE None

\* one filter_map step of AutumnusAdapter::parse_highlight_lines
RangeOfPart(p) ==
    LET part == Trim(p)
        se == split_once(part, "-")
    IN  IF IsSome(se)
        THEN LET a == parse_usize(Trim(Unwrap(se)[1]))
                 b == parse_usize(Trim(Unwrap(se)[2]))
             IN  IF IsSome(a) /\ IsSome(b)
                 THEN <<Range(Unwrap(a), Unwrap(b))>>
                 ELSE <<>>
        ELSE LET n == parse_usize(part)
             IN  IF IsSome(n) THEN <<Range(Unwrap(n), Unwrap(n))>> ELSE <<>>

RECURSIVE ConcatRanges(_)
ConcatRanges(parts) ==
    IF parts = <<>> THEN <<>> ELSE RangeOfPart(Head(parts)) \o ConcatRanges(Tail(parts))

\* AutumnusAdapter::parse_highlight_lines: Vec<RangeInclusive<usize>>
autumnus_parse_highlight_lines(lines_str) == ConcatRanges(Split(lines_str, ","))

\* the theme of a FormatterOption, already resolved
BaseTheme(config) ==
    IF IsSome(config.theme) THEN Some(Unwrap(config.theme).theme) ELSE None

Builder(theme, pc, ih, hl, lang, source) ==
    [theme |-> theme, pre_class |-> pc, include_highlights |-> ih,
     highlight_lines |-> hl, lang |-> lang, source |-> source]

\* AutumnusAdapter::configure_html_inline_builder
configure_html_inline_builder(base_config, lang, source, custom) ==
    LET custom_theme == IF IsSome(custom) THEN resolve_theme(Unwrap(custom)) ELSE None
        attrs == Unwrap(custom)
        has(k) == IsSome(custom) /\ k \in DOMAIN attrs
    IN  Builder(
            OrElse(custom_theme, BaseTheme(base_config)),
            IF has("pre_class") THEN Some(Join(attrs["pre_class"]))
            ELSE base_config.pre_class,
            IF has("include_highlights") /\ attrs["include_highlights"] = cTrue
            THEN TRUE
            ELSE base_config.include_highlights,
            IF has("highlight_lines")
            THEN Some([lines |-> autumnus_parse_highlight_lines(attrs["highlight_lines"]),
                       style |-> IF has("highlight_lines_style")
                                    /\ Join(attrs["highlight_lines_style"]) # "theme"
                                 THEN StyleLiteral(Join(attrs["highlight_lines_style"]))
                                 ELSE StyleTheme])
            ELSE base_config.highlight_lines,
            lang, source)

\* AutumnusAdapter::configure_html_linked_builder
configure_html_linked_builder(base_config, lang, source, custom) ==
    LET attrs == Unwrap(custom)
        has(k) == IsSome(custom) /\ k \in DOMAIN attrs
    IN  Builder(
            None,
            IF has("pre_class") THEN Some(Join(attrs["pre_class"]))
            ELSE base_config.pre_class,
            FALSE,
            IF has("highlight_lines")
            THEN Some([lines |-> autumnus_parse_highlight_lines(attrs["highlight_lines"]),
                       class |-> IF has("highlight_lines_style")
                                 THEN Join(attrs["highlight_lines_style"])
                                 ELSE "highlighted"])
            ELSE base_config.highlight_lines,
            lang, source)

\* AutumnusAdapter::configure_terminal_builder
configure_terminal_builder(base_config, lang, source, custom) ==
    LET custom_theme == IF IsSome(custom) THEN resolve_theme(Unwrap(custom)) ELSE None
    IN  Builder(OrElse(custom_theme, BaseTheme(base_config)), None, FALSE, None,
                lang, source)

\* the match on self.formatter that picks the builder
ConfigureBuilder(base_config, lang, source, custom) ==
    CASE base_config.kind = "HtmlInline" ->
            configure_html_inline_builder(base_config, lang, source, custom)
      [] base_config.kind = "HtmlLinked" ->
            configure_html_linked_builder(base_config, lang, source, custom)
      [] OTHER ->
            configure_terminal_builder(base_config, lang, source, custom)

----------------------------------------------------------------------------
(* Inputs of the host renderer *)

\* theme=github_light pre_class="a b" include_highlights highlight_lines="1"
MetaFull ==
    cTheme \o <<"=">> \o cGithubLight \o <<" ">>
    \o cPreClass \o <<"=", "\"", "a", " ", "b", "\"", " ">>
    \o cIncludeHighlights \o <<" ">>
    \o cHighlightLines \o <<"=", "\"", "1", "\"">>
\* theme=nope
MetaUnknownTheme == cTheme \o <<"=">> \o cNope
\* highlight_lines=2
MetaLines == cHighlightLines \o <<"=", "2">>
\* theme="nord   (the quote is never closed)
MetaUnterminated == cTheme \o <<"=", "\"">> \o cNord

\* highlight_lines=x   (names no line)
MetaNoLines == cHighlightLines \o <<"=", "x">>

\* include_highlights=false
MetaHighlightsOff == cIncludeHighlights \o <<"=", "f", "a", "l", "s", "e">>

\* highlight_lines=1 highlight_lines_class=my
MetaLinesClass ==
    cHighlightLines \o <<"=", "1", " ">>
    \o cHighlightLines \o <<"_", "c", "l", "a", "s", "s", "=", "m", "y">>

MetaStrings ==
    {MetaFull, MetaUnknownTheme, MetaLines, MetaUnterminated, MetaNoLines, MetaHighlightsOff,
     MetaLinesClass}

Attrs1(k, v) == [x \in {k} |-> v]
Attrs2(k1, v1, k2, v2) == [x \in {k1, k2} |-> IF x = k1 THEN v1 ELSE v2]

\* attribute maps handed to write_pre_tag
PreAttributes ==
    {EmptyMap, Attrs1("lang", cRust)}
    \cup {Attrs2("lang", cRust, "data-meta", m) : m \in MetaStrings}

\* attribute maps handed to write_code_tag
CodeAttributes ==
    {EmptyMap, Attrs1("class", cLanguagePrefix \o cElixir), Attrs1("data-meta", MetaFull)}
    \cup {Attrs2("class", cLanguagePrefix \o cElixir, "data-meta", m) : m \in MetaStrings}

\* language hints handed to write_highlighted
Hints == {None, Some(cRust)}

SrcTwoLines == <<"a", "\n", "<", "\n">>
SrcShebang == <<"#", "!", "\n", "b">>
BlockSources == {SrcTwoLines, SrcShebang}

RECURSIVE TokenEventsFrom(_, _)
\* one event per maximal run of non-blank characters, from byte position p
TokenEventsFrom(source, p) ==
    IF p >= Len(source) THEN <<>>
    ELSE IF source[p + 1] \in WhiteSpace THEN TokenEventsFrom(source, p + 1)
    ELSE LET stop == IF \E q \in (p + 1)..Len(source) : source[q] \in WhiteSpace
                     THEN (CHOOSE q \in (p + 1)..Len(source) :
                              /\ source[q] \in WhiteSpace
                              /\ \A k \in (p + 1)..(q - 1) : source[k] \notin WhiteSpace) - 1
                     ELSE Len(source)
         IN  <<[start |-> p, end |-> stop, scope |-> "variable"]>>
             \o TokenEventsFrom(source, stop)

\* what highlight_iter may deliver for a block: nothing, or one event per token
LexerEvents(source) == {<<>>, TokenEventsFrom(source, 0)}

----------------------------------------------------------------------------
(* The adapter and the three callbacks *)

VARIABLES
    adapter,           \* "Lumis" or "Autumnus"
    formatter_config,  \* LumisAdapter.formatter_config / AutumnusAdapter.formatter
    stored_attrs,      \* Mutex<Option<HashMap<String, String>>>
    stored_lang,       \* Mutex<Option<Language>>
    phase,             \* where the host is in the cycle of the current block
    call,              \* the arguments the host passed for the current block, and
                       \* whether the external collaborator failed in the last call
    out,               \* what the callbacks wrote for the current block
    result,            \* what the last callback returned
    locks,             \* the owner of each of the two Mutexes, "free" when unlocked
    threads            \* the callback each thread sharing the adapter is running

vars ==
    <<adapter, formatter_config, stored_attrs, stored_lang, phase, call, out, result,
      locks, threads>>

\* the threads that share one adapter by reference
Threads == {"t1", "t2"}

\* a thread that is not inside a callback
IdleThread ==
    [phase |-> "none", attributes |-> EmptyMap, steps |-> <<>>, pc |-> 0, failed |-> FALSE,
     locals |-> [stored_attrs |-> None, stored_lang |-> None, theme |-> None,
                 pre_class |-> None, include_highlights |-> FALSE,
                 highlight_config |-> None]]

\* both Mutexes unlocked and no callback running
Quiescent ==
    /\ locks = [l \in {"stored_attrs", "stored_lang"} |-> "free"]
    /\ threads = [t \in Threads |-> IdleThread]

NoCalls == [pre |-> None, code |-> None, highlighted |-> None, fault |-> FALSE]
NoOutput == [pre |-> None, code |-> None, body |-> None]

\* LumisAdapter::new / AutumnusAdapter::new
Init ==
    /\ \/ adapter = "Lumis" /\ formatter_config \in LumisConfigs
       \/ adapter = "Autumnus" /\ formatter_config \in AutumnusConfigs
    /\ stored_attrs = None
    /\ stored_lang = None
    /\ phase = "idle"
    /\ call = NoCalls
    /\ out = NoOutput
    /\ result = "none"
    /\ Quiescent

\* the theme both LumisAdapter tag and body phases resolve
LumisTheme(config, stored) ==
    OrElse(decorator_theme(stored), theme_from_formatter(config))

\* variant: write_pre_tag overwrites the stored state with what its own
\* attributes carry, clearing it when they carry nothing
write_pre_tag_resetting(attributes, build_fails) ==
    /\ phase = "idle"
    /\ LET custom == custom_attrs(attributes)
           lang == IF "lang" \in DOMAIN attributes
                   THEN Some(Language_guess(attributes["lang"], <<>>))
                   ELSE None
           b == ConfigureBuilder(formatter_config, lang, None, custom)
           failed == adapter = "Autumnus" /\ formatter_config.kind # "Terminal"
                     /\ build_fails
           written ==
               IF adapter = "Lumis"
               THEN Some([base |-> "lumis",
                          class |-> OrElse(decorator_pre_class(custom),
                                           pre_class(formatter_config)),
                          theme |-> LumisTheme(formatter_config, custom)])
               ELSE IF formatter_config.kind = "Terminal" \/ failed THEN None
               ELSE Some([base |-> "athl", class |-> b.pre_class, theme |-> b.theme])
       IN  /\ build_fails => adapter = "Autumnus" /\ formatter_config.kind # "Terminal"
           /\ stored_attrs' = custom
           /\ stored_lang' = lang
           /\ call' = [pre |-> Some(attributes), code |-> None, highlighted |-> None,
                       fault |-> failed]
           /\ out' = [pre |-> written, code |-> None, body |-> None]
           /\ result' = IF failed THEN "Err" ELSE "Ok"
           /\ phase' = IF failed THEN "aborted" ELSE "pre"
    /\ UNCHANGED <<adapter, formatter_config, locks, threads>>

\* SyntaxHighlighterAdapter::write_pre_tag; build_fails: builder.build() errs
write_pre_tag(attributes, build_fails) ==
    /\ phase = "idle"
    /\ LET custom == custom_attrs(attributes)
           lang == IF "lang" \in DOMAIN attributes
                   THEN Some(Language_guess(attributes["lang"], <<>>))
                   ELSE None
           attrs1 == IF IsSome(custom) THEN custom ELSE stored_attrs
           lang1 == IF IsSome(lang) THEN lang ELSE stored_lang
           b == ConfigureBuilder(formatter_config, lang, None, custom)
           failed == adapter = "Autumnus" /\ formatter_config.kind # "Terminal"
                     /\ build_fails
           written ==
               IF adapter = "Lumis"
               THEN Some([base |-> "lumis",
                          class |-> OrElse(decorator_pre_class(attrs1),
                                           pre_class(formatter_config)),
                          theme |-> LumisTheme(formatter_config, attrs1)])
               ELSE IF formatter_config.kind = "Terminal" \/ failed THEN None
               ELSE Some([base |-> "athl", class |-> b.pre_class, theme |-> b.theme])
       IN  /\ build_fails => adapter = "Autumnus" /\ formatter_config.kind # "Terminal"
           /\ stored_attrs' = attrs1
           /\ stored_lang' = lang1
           /\ call' = [pre |-> Some(attributes), code |-> None, highlighted |-> None,
                       fault |-> failed]
           /\ out' = [pre |-> written, code |-> None, body |-> None]
           /\ result' = IF failed THEN "Err" ELSE "Ok"
           /\ phase' = IF failed THEN "aborted" ELSE "pre"
    /\ UNCHANGED <<adapter, formatter_config, locks, threads>>

\* variant: write_code_tag leaves the decorator attributes of its data-meta
\* unstored
write_code_tag_not_storing(attributes, build_fails) ==
    /\ phase = "pre"
    /\ LET lang == language_from_attrs(attributes)
           lang1 == IF attributes # EmptyMap THEN Some(lang) ELSE stored_lang
           effective_lang == IF IsSome(lang1) THEN Unwrap(lang1) ELSE lang
           b == ConfigureBuilder(formatter_config, Some(effective_lang), None, stored_attrs)
           failed == adapter = "Autumnus" /\ formatter_config.kind # "Terminal"
                     /\ build_fails
           written ==
               IF adapter = "Lumis" THEN Some([lang |-> effective_lang])
               ELSE IF formatter_config.kind = "Terminal" \/ failed THEN None
               ELSE Some([lang |-> Unwrap(b.lang)])
       IN  /\ build_fails => adapter = "Autumnus" /\ formatter_config.kind # "Terminal"
           /\ stored_lang' = lang1
           /\ call' = [call EXCEPT !.code = Some(attributes), !.fault = failed]
           /\ out' = [out EXCEPT !.code = written]
           /\ result' = IF failed THEN "Err" ELSE "Ok"
           /\ phase' = IF failed THEN "aborted" ELSE "code"
    /\ UNCHANGED <<adapter, formatter_config, stored_attrs, locks, threads>>

\* SyntaxHighlighterAdapter::write_code_tag
write_code_tag(attributes, build_fails) ==
    /\ phase = "pre"
    /\ LET custom == custom_attrs(attributes)
           lang == language_from_attrs(attributes)
           attrs1 == IF IsSome(custom) THEN custom ELSE stored_attrs
           lang1 == IF attributes # EmptyMap THEN Some(lang) ELSE stored_lang
           effective_lang == IF IsSome(lang1) THEN Unwrap(lang1) ELSE lang
           b == ConfigureBuilder(formatter_config, Some(effective_lang), None, attrs1)
           failed == adapter = "Autumnus" /\ formatter_config.kind # "Terminal"
                     /\ build_fails
           written ==
               IF adapter = "Lumis" THEN Some([lang |-> effective_lang])
               ELSE IF formatter_config.kind = "Terminal" \/ failed THEN None
               ELSE Some([lang |-> Unwrap(b.lang)])
       IN  /\ build_fails => adapter = "Autumnus" /\ formatter_config.kind # "Terminal"
           /\ stored_attrs' = attrs1
           /\ stored_lang' = lang1
           /\ call' = [call EXCEPT !.code = Some(attributes), !.fault = failed]
           /\ out' = [out EXCEPT !.code = written]
           /\ result' = IF failed THEN "Err" ELSE "Ok"
           /\ phase' = IF failed THEN "aborted" ELSE "code"
    /\ UNCHANGED <<adapter, formatter_config, locks, threads>>

\* variant: the hint of write_highlighted is looked at before the stored language
EffectiveLanguage_hint_first(stored, lang, source) ==
    IF IsSome(lang) THEN Language_guess(Unwrap(lang), source)
    ELSE IF IsSome(stored) THEN Unwrap(stored)
    ELSE Language_guess(cPlaintext, source)

\* the effective language of write_highlighted
EffectiveLanguage(stored, lang, source) ==
    IF IsSome(stored) THEN Unwrap(stored)
    ELSE IF IsSome(lang) THEN Language_guess(Unwrap(lang), source)
    ELSE Language_guess(cPlaintext, source)

\* what LumisAdapter::write_highlighted writes when highlight_iter succeeds
LumisBody(config, attrs, language, source, events) ==
    LET theme == LumisTheme(config, attrs)
        include_highlights == should_include_highlights(config, attrs)
        html_output == AssembleHtml(source, events, config, language = "PlainText",
                                    theme, include_highlights)
        highlight_config == highlight_lines_config(config, attrs, theme)
    IN  [language |-> language, theme |-> theme,
         include_highlights |-> include_highlights,
         highlight |-> highlight_config,
         html_output |-> html_output,
         wrappers |-> WrapLines(html_output, highlight_config)]

\* what formatter.highlights writes for the builder of write_highlighted
AutumnusBody(config, attrs, language, source) ==
    LET b == ConfigureBuilder(config, Some(language), Some(source), attrs)
    IN  [language |-> Unwrap(b.lang), theme |-> b.theme,
         include_highlights |-> b.include_highlights,
         highlight |-> b.highlight_lines,
         html_output |-> <<>>,
         wrappers |-> <<>>]

\* variant: a failure of the external collaborator is swallowed, the phase
\* returns success having written nothing
write_highlighted_swallowing_failure(lang, source, events, fails) ==
    /\ phase \in {"idle", "code"}
    /\ adapter = "Autumnus" => events = <<>>
    /\ LET language == EffectiveLanguage(stored_lang, lang, source)
           body == IF adapter = "Lumis"
                   THEN LumisBody(formatter_config, stored_attrs, language, source, events)
                   ELSE AutumnusBody(formatter_config, stored_attrs, language, source)
           args == Some([lang |-> lang, source |-> source, events |-> events])
       IN  /\ call' = IF phase = "idle"
                      THEN [pre |-> None, code |-> None, highlighted |-> args,
                            fault |-> fails]
                      ELSE [call EXCEPT !.highlighted = args, !.fault = fails]
           /\ out' = IF phase = "idle"
                     THEN [pre |-> None, code |-> None,
                           body |-> IF fails THEN None ELSE Some(body)]
                     ELSE [out EXCEPT !.body = IF fails THEN None ELSE Some(body)]
           /\ result' = "Ok"
           /\ phase' = "idle"
    /\ UNCHANGED <<adapter, formatter_config, stored_attrs, stored_lang, locks, threads>>

\* variant: the lines assembled before the failure are written out
write_highlighted_partial_on_failure(lang, source, events, fails) ==
    /\ phase \in {"idle", "code"}
    /\ adapter = "Autumnus" => events = <<>>
    /\ LET language == EffectiveLanguage(stored_lang, lang, source)
           body == IF adapter = "Lumis"
                   THEN LumisBody(formatter_config, stored_attrs, language, source, events)
                   ELSE AutumnusBody(formatter_config, stored_attrs, language, source)
           args == Some([lang |-> lang, source |-> source, events |-> events])
       IN  /\ call' = IF phase = "idle"
                      THEN [pre |-> None, code |-> None, highlighted |-> args,
                            fault |-> fails]
                      ELSE [call EXCEPT !.highlighted = args, !.fault = fails]
           /\ out' = IF phase = "idle"
                     THEN [pre |-> None, code |-> None, body |-> Some(body)]
                     ELSE [out EXCEPT !.body = Some(body)]
           /\ result' = IF fails THEN "Err" ELSE "Ok"
           /\ phase' = IF fails THEN "aborted" ELSE "idle"
    /\ UNCHANGED <<adapter, formatter_config, stored_attrs, stored_lang, locks, threads>>

\* SyntaxHighlighterAdapter::write_highlighted; fails: highlight_iter
\* (Lumis) or builder.build() (Autumnus) returns an error
write_highlighted(lang, source, events, fails) ==
    /\ phase \in {"idle", "code"}
    /\ adapter = "Autumnus" => events = <<>>
    /\ LET language == EffectiveLanguage(stored_lang, lang, source)
           body == IF adapter = "Lumis"
                   THEN LumisBody(formatter_config, stored_attrs, language, source, events)
                   ELSE AutumnusBody(formatter_config, stored_attrs, language, source)
           args == Some([lang |-> lang, source |-> source, events |-> events])
       IN  /\ call' = IF phase = "idle"
                      THEN [pre |-> None, code |-> None, highlighted |-> args,
                            fault |-> fails]
                      ELSE [call EXCEPT !.highlighted = args, !.fault = fails]
           /\ out' = IF phase = "idle"
                     THEN [pre |-> None, code |-> None,
                           body |-> IF fails THEN None ELSE Some(body)]
                     ELSE [out EXCEPT !.body = IF fails THEN None ELSE Some(body)]
           /\ result' = IF fails THEN "Err" ELSE "Ok"
           /\ phase' = IF fails THEN "aborted" ELSE "idle"
    /\ UNCHANGED <<adapter, formatter_config, stored_attrs, stored_lang, locks, threads>>

OpenPreTag == \E attributes \in PreAttributes, f \in BOOLEAN : write_pre_tag(attributes, f)
OpenCodeTag == \E attributes \in CodeAttributes, f \in BOOLEAN : write_code_tag(attributes, f)
RenderHighlighted ==
    \E lang \in Hints, source \in BlockSources, f \in BOOLEAN :
        \E events \in LexerEvents(source) : write_highlighted(lang, source, events, f)

Next == OpenPreTag \/ OpenCodeTag \/ RenderHighlighted

Spec == Init /\ [][Next]_vars

----------------------------------------------------------------------------
(* The first block of a fresh LumisAdapter, its tag phases given empty     *)
(* attribute maps, rendered over every source and every ordered,           *)
(* non-overlapping sequence of highlight events within the bounds          *)

MaxSrcLen == 3
MaxEvents == 2

SourceAlphabet == {"a", "<", " ", "\n"}
AllSources == UNION {[1..n -> SourceAlphabet] : n \in 0..MaxSrcLen}

ByteRanges(source) ==
    {r \in (0..Len(source)) \X (0..Len(source)) : r[1] < r[2]}

EventSeqs(source) ==
    UNION { { [i \in 1..k |-> [start |-> rs[i][1], end |-> rs[i][2], scope |-> "keyword"]] :
                rs \in {x \in [1..k -> ByteRanges(source)] :
                           \A i \in 1..(k - 1) : x[i][2] <= x[i + 1][1]} } :
            k \in 0..MaxEvents }

RenderConfigs ==
    {c \in LumisConfigs : c.kind # "Terminal" /\ IsSome(c.highlight_lines)}
    \cup {HtmlMultiThemes(None, TRUE, None)}

InitRender ==
    /\ adapter = "Lumis"
    /\ formatter_config \in RenderConfigs
    /\ stored_attrs = None
    /\ stored_lang = None
    /\ phase = "idle"
    /\ call = NoCalls
    /\ out = NoOutput
    /\ result = "none"
    /\ Quiescent

FirstPreTag == result = "none" /\ write_pre_tag(EmptyMap, FALSE)
FirstCodeTag == write_code_tag(EmptyMap, FALSE)
RenderAnySource ==
    /\ phase = "code"
    /\ \E lang \in Hints, source \in AllSources :
           \E events \in EventSeqs(source) : write_highlighted(lang, source, events, FALSE)

NextRender == FirstPreTag \/ FirstCodeTag \/ RenderAnySource

SpecRender == InitRender /\ [][NextRender]_vars

----------------------------------------------------------------------------
(* A fresh adapter handed one data-meta string out of all the strings up   *)
(* to MaxMetaLen over a small alphabet.                                     *)

MaxMetaLen == 4

MetaAlphabet == {"a", "b", "=", " ", "\""}
AllMetas == UNION {[1..n -> MetaAlphabet] : n \in 0..MaxMetaLen}

InitParse ==
    /\ adapter \in {"Lumis", "Autumnus"}
    /\ formatter_config = DefaultFormatter
    /\ stored_attrs = None
    /\ stored_lang = None
    /\ phase = "idle"
    /\ call = NoCalls
    /\ out = NoOutput
    /\ result = "none"
    /\ Quiescent

DeliverMeta ==
    /\ result = "none"
    /\ \E m \in AllMetas : write_pre_tag(Attrs1("data-meta", m), FALSE)

NextParse == DeliverMeta

SpecParse == InitParse /\ [][NextParse]_vars

----------------------------------------------------------------------------
(* A fresh adapter rendering one block whose decorator is                   *)
(* highlight_lines="<spec>", for all the line specs up to MaxLineSpecLen    *)
(* over a small alphabet.                                                   *)

MaxLineSpecLen == 4

LineSpecAlphabet == {"1", "3", "-", ",", " ", "x", "+"}
AllLineSpecs == UNION {[1..n -> LineSpecAlphabet] : n \in 0..MaxLineSpecLen}

\* highlight_lines="<spec>"
MetaOfLineSpec(spec) == cHighlightLines \o <<"=", "\"">> \o spec \o <<"\"">>

InitLines ==
    /\ adapter \in {"Lumis", "Autumnus"}
    /\ formatter_config = HtmlInline(Some(ThemeValue(ThemeNord)), None, FALSE, None)
    /\ stored_attrs = None
    /\ stored_lang = None
    /\ phase = "idle"
    /\ call = NoCalls
    /\ out = NoOutput
    /\ result = "none"
    /\ Quiescent

DeliverLineSpec ==
    /\ result = "none"
    /\ \E spec \in AllLineSpecs :
           write_pre_tag(Attrs1("data-meta", MetaOfLineSpec(spec)), FALSE)

RenderThreeLines ==
    /\ phase = "code"
    /\ write_highlighted(None, <<"a", "\n", "a", "\n", "a">>, <<>>, FALSE)

NextLines == DeliverLineSpec \/ FirstCodeTag \/ RenderThreeLines

SpecLines == InitLines /\ [][NextLines]_vars

----------------------------------------------------------------------------
(* A fresh adapter rendering one block whose decorator highlight_lines is   *)
(* the comma-joined text of a sequence of line specs: single numbers and    *)
(* ranges with start <= end, up to MaxSpecs of them.                        *)

MaxSpecs == 2

\* line numbers of one and of two digits
SpecNumbers == {1, 2, 12}

WellFormedSpecs ==
    {Single(n) : n \in SpecNumbers}
    \cup {Range(r[1], r[2]) : r \in {x \in SpecNumbers \X SpecNumbers : x[1] <= x[2]}}
WellFormedSpecSeqs == UNION {[1..k -> WellFormedSpecs] : k \in 0..MaxSpecs}

RECURSIVE DecimalText(_)
\* usize as decimal text
DecimalText(n) ==
    LET d == CHOOSE c \in Digits : DigitValue(c) = n % 10
    IN  IF n < 10 THEN <<d>> ELSE Append(DecimalText(n \div 10), d)

\* "n" for a single line, "a-b" for a range
RenderSpec(spec) ==
    IF spec.kind = "Single" THEN DecimalText(spec.start)
    ELSE DecimalText(spec.start) \o <<"-">> \o DecimalText(spec.end)

RECURSIVE RenderSpecs(_)
\* the specs joined with ","
RenderSpecs(specs) ==
    IF specs = <<>> THEN <<>>
    ELSE IF Len(specs) = 1 THEN RenderSpec(specs[1])
    ELSE RenderSpec(specs[1]) \o <<",">> \o RenderSpecs(Tail(specs))

DeliverRendered ==
    /\ result = "none"
    /\ \E specs \in WellFormedSpecSeqs :
           write_pre_tag(Attrs1("data-meta", MetaOfLineSpec(RenderSpecs(specs))), FALSE)

NextRoundTrip == DeliverRendered \/ FirstCodeTag \/ RenderThreeLines

SpecRoundTrip == InitLines /\ [][NextRoundTrip]_vars

----------------------------------------------------------------------------
(* The first block a freshly constructed adapter renders. *)

FirstBlockPreTag == result = "none" /\ OpenPreTag
FirstBlockCodeTag == OpenCodeTag
FirstBlockRender == phase = "code" /\ RenderHighlighted

NextFirstBlock == FirstBlockPreTag \/ FirstBlockCodeTag \/ FirstBlockRender

SpecFirstBlock == Init /\ [][NextFirstBlock]_vars

----------------------------------------------------------------------------
(* The callbacks run by threads that share one adapter.  A callback is the  *)
(* sequence of its steps on the shared state: taking a Mutex, one access    *)
(* under the guard, dropping the guard, the call of the external           *)
(* collaborator that may fail, and the return.  A thread takes one step at  *)
(* a time; lock blocks while another thread owns the Mutex.                 *)

Ins(op, lock) == [op |-> op, lock |-> lock]

\* one access made under a guard that is dropped right after it
Locked(lock, op) == <<Ins("lock", lock), Ins(op, lock), Ins("unlock", lock)>>

\* variant: the guard of stored_attrs is kept while stored_lang is locked
LumisCodeTagSteps_guard_kept(attributes) ==
    <<Ins("lock", "stored_attrs"), Ins("store_attrs", "stored_attrs")>>
    \o Locked("stored_lang", "store_lang")
    \o <<Ins("unlock", "stored_attrs")>>
    \o Locked("stored_lang", "read_lang")
    \o <<Ins("return", "")>>

\* LumisAdapter::write_pre_tag
LumisPreTagSteps(attributes) ==
    (IF IsSome(custom_attrs(attributes))
     THEN Locked("stored_attrs", "store_attrs") ELSE <<>>)
    \o (IF "lang" \in DOMAIN attributes
        THEN Locked("stored_lang", "store_lang") ELSE <<>>)
    \o Locked("stored_attrs", "decorator_theme")
    \o Locked("stored_attrs", "decorator_pre_class")
    \o <<Ins("return", "")>>

\* LumisAdapter::write_code_tag
LumisCodeTagSteps(attributes) ==
    (IF IsSome(custom_attrs(attributes))
     THEN Locked("stored_attrs", "store_attrs") ELSE <<>>)
    \o (IF attributes # EmptyMap
        THEN Locked("stored_lang", "store_lang") ELSE <<>>)
    \o Locked("stored_lang", "read_lang")
    \o <<Ins("return", "")>>

\* LumisAdapter::write_highlighted
LumisHighlightedSteps(attributes) ==
    Locked("stored_lang", "read_lang")
    \o Locked("stored_attrs", "decorator_theme")
    \o Locked("stored_attrs", "should_include_highlights")
    \o <<Ins("fallible", "")>>
    \o Locked("stored_attrs", "highlight_lines_config")
    \o <<Ins("return", "")>>

\* AutumnusAdapter::write_pre_tag
AutumnusPreTagSteps(attributes) ==
    (IF IsSome(custom_attrs(attributes))
     THEN Locked("stored_attrs", "store_attrs") ELSE <<>>)
    \o (IF "lang" \in DOMAIN attributes
        THEN Locked("stored_lang", "store_lang") ELSE <<>>)
    \o (IF formatter_config.kind = "Terminal" THEN <<>> ELSE <<Ins("fallible", "")>>)
    \o <<Ins("return", "")>>

\* AutumnusAdapter::write_code_tag
AutumnusCodeTagSteps(attributes) ==
    (IF IsSome(custom_attrs(attributes))
     THEN Locked("stored_attrs", "store_attrs") ELSE <<>>)
    \o (IF attributes # EmptyMap
        THEN Locked("stored_lang", "store_lang") ELSE <<>>)
    \o Locked("stored_attrs", "read_attrs")
    \o Locked("stored_lang", "read_lang")
    \o (IF formatter_config.kind = "Terminal" THEN <<>> ELSE <<Ins("fallible", "")>>)
    \o <<Ins("return", "")>>

\* AutumnusAdapter::write_highlighted
AutumnusHighlightedSteps(attributes) ==
    Locked("stored_attrs", "read_attrs")
    \o Locked("stored_lang", "read_lang")
    \o <<Ins("fallible", ""), Ins("return", "")>>

\* the steps of the callback ph of the adapter in use
Steps(ph, attributes) ==
    CASE ph = "pre" -> IF adapter = "Lumis" THEN LumisPreTagSteps(attributes)
                       ELSE AutumnusPreTagSteps(attributes)
      [] ph = "code" -> IF adapter = "Lumis" THEN LumisCodeTagSteps(attributes)
                        ELSE AutumnusCodeTagSteps(attributes)
      [] OTHER -> IF adapter = "Lumis" THEN LumisHighlightedSteps(attributes)
                  ELSE AutumnusHighlightedSteps(attributes)

\* the attribute maps the threads hand to the tag callbacks; each carries a
\* language and decorators, so each call stores both fields
SharedTagAttributes ==
    [pre |-> Attrs2("lang", cRust, "data-meta", MetaFull),
     code |-> Attrs2("class", cLanguagePrefix \o cElixir, "data-meta", MetaLines),
     highlighted |-> EmptyMap]

\* a thread enters one of the three callbacks
Call(t) ==
    /\ threads[t].phase = "none"
    /\ \E ph \in {"pre", "code", "highlighted"} :
           threads' = [threads EXCEPT ![t] =
                          [IdleThread EXCEPT !.phase = ph,
                                             !.attributes = SharedTagAttributes[ph],
                                             !.steps = Steps(ph, SharedTagAttributes[ph]),
                                             !.pc = 1]]
    /\ UNCHANGED <<adapter, formatter_config, stored_attrs, stored_lang, phase, call, out,
                   result, locks>>

\* Mutex::lock: waits until the Mutex is unlocked (also when the caller is
\* the owner: neither Mutex is re-entrant)
Acquire(t) ==
    /\ threads[t].phase # "none"
    /\ LET ins == threads[t].steps[threads[t].pc]
       IN  /\ ins.op = "lock"
           /\ locks[ins.lock] = "free"
           /\ locks' = [locks EXCEPT ![ins.lock] = t]
    /\ threads' = [threads EXCEPT ![t].pc = @ + 1]
    /\ UNCHANGED <<adapter, formatter_config, stored_attrs, stored_lang, phase, call, out,
                   result>>

\* the guard is dropped
Release(t) ==
    /\ threads[t].phase # "none"
    /\ LET ins == threads[t].steps[threads[t].pc]
       IN  /\ ins.op = "unlock"
           /\ locks' = [locks EXCEPT ![ins.lock] = "free"]
    /\ threads' = [threads EXCEPT ![t].pc = @ + 1]
    /\ UNCHANGED <<adapter, formatter_config, stored_attrs, stored_lang, phase, call, out,
                   result>>

\* an access under the guard, the successful call of the external
\* collaborator, or the return of the callback
Execute(t) ==
    /\ threads[t].phase # "none"
    /\ LET th == threads[t]
           op == th.steps[th.pc].op
           next == [th EXCEPT !.pc = @ + 1]
       IN  /\ op \notin {"lock", "unlock"}
           /\ stored_attrs' = IF op = "store_attrs" THEN custom_attrs(th.attributes)
                              ELSE stored_attrs
           /\ stored_lang' =
                  IF op = "store_lang"
                  THEN Some(IF th.phase = "pre"
                            THEN Language_guess(th.attributes["lang"], <<>>)
                            ELSE language_from_attrs(th.attributes))
                  ELSE stored_lang
           /\ threads' = [threads EXCEPT ![t] =
                  CASE op = "return" -> IdleThread
                    [] op = "read_attrs" -> [next EXCEPT !.locals.stored_attrs = stored_attrs]
                    [] op = "read_lang" -> [next EXCEPT !.locals.stored_lang = stored_lang]
                    [] op = "decorator_theme" ->
                          [next EXCEPT !.locals.theme =
                                           LumisTheme(formatter_config, stored_attrs)]
                    [] op = "decorator_pre_class" ->
                          [next EXCEPT !.locals.pre_class =
                                           OrElse(decorator_pre_class(stored_attrs),
                                                  pre_class(formatter_config))]
                    [] op = "should_include_highlights" ->
                          [next EXCEPT !.locals.include_highlights =
                                           should_include_highlights(formatter_config,
                                                                     stored_attrs)]
                    [] op = "highlight_lines_config" ->
                          [next EXCEPT !.locals.highlight_config =
                                           highlight_lines_config(formatter_config,
                                                                  stored_attrs,
                                                                  th.locals.theme)]
                    [] OTHER -> next]
    /\ UNCHANGED <<adapter, formatter_config, phase, call, out, result, locks>>

\* the external collaborator (builder.build(), highlight_iter) fails: the ?
\* operator returns the error from the callback
Abort(t) ==
    /\ threads[t].phase # "none"
    /\ threads[t].steps[threads[t].pc].op = "fallible"
    /\ threads' = [threads EXCEPT ![t].pc = Len(threads[t].steps), ![t].failed = TRUE]
    /\ UNCHANGED <<adapter, formatter_config, stored_attrs, stored_lang, phase, call, out,
                   result, locks>>

NextShared ==
    \E t \in Threads : Call(t) \/ Acquire(t) \/ Release(t) \/ Execute(t) \/ Abort(t)

SpecShared == InitParse /\ [][NextShared]_vars

----------------------------------------------------------------------------
(* Properties.  The expected values below are written from the formatter  *)
(* configuration, the registry and the arguments of the current block.     *)

\* the theme the formatter configuration alone resolves to
FormatterThemeAlone ==
    IF formatter_config.kind \in {"HtmlInline", "Terminal"} /\ IsSome(formatter_config.theme)
    THEN LET t == Unwrap(formatter_config.theme)
         IN  IF t.tag = "Theme" THEN Some(t.theme)
             ELSE IF \E r \in Registry : r.name = t.name
             THEN Some(CHOOSE r \in Registry : r.name = t.name)
             ELSE None
    ELSE None

\* the registered theme an attribute map names with theme=, if any
KnownDecoratorTheme(attrs) ==
    IF IsSome(attrs) /\ "theme" \in DOMAIN Unwrap(attrs)
       /\ \E r \in Registry : r.name = Unwrap(attrs)["theme"]
    THEN Some(CHOOSE r \in Registry : r.name = Unwrap(attrs)["theme"])
    ELSE None

\* an attribute map names a theme that is not registered
UnknownDecoratorTheme(attrs) ==
    /\ IsSome(attrs)
    /\ "theme" \in DOMAIN Unwrap(attrs)
    /\ ~\E r \in Registry : r.name = Unwrap(attrs)["theme"]

\* the decorator maps the tag phases of the current block delivered
PreCustom == IF IsSome(call.pre) THEN custom_attrs(Unwrap(call.pre)) ELSE None
CodeCustom == IF IsSome(call.code) THEN custom_attrs(Unwrap(call.code)) ELSE None
\* the decorator map the current block delivered last
BlockDecorators == IF IsSome(CodeCustom) THEN CodeCustom ELSE PreCustom

\* the data-meta strings the tag phases of the current block received
BlockMetaStrings ==
    {Unwrap(c)["data-meta"] :
        c \in {x \in {call.pre, call.code} : IsSome(x) /\ "data-meta" \in DOMAIN Unwrap(x)}}

\* the attribute map that decides the pre tag just written
PreAttrsInForce == IF adapter = "Lumis" THEN stored_attrs ELSE PreCustom

AutumnusLinked == adapter = "Autumnus" /\ formatter_config.kind = "HtmlLinked"

\* the body and the pre tag of the current block show no decorator attribute
RenderedWithoutDecorators ==
    LET a == Unwrap(call.highlighted)
        b == Unwrap(out.body)
    IN  /\ b = IF adapter = "Lumis"
               THEN LumisBody(formatter_config, None, b.language, a.source, a.events)
               ELSE AutumnusBody(formatter_config, None, b.language, a.source)
        /\ IsSome(out.pre) =>
              /\ Unwrap(out.pre).theme = FormatterThemeAlone
              /\ Unwrap(out.pre).class = formatter_config.pre_class

\* C1: a block whose tag phases supply no data-meta is rendered with no
\* decorator attributes, whatever the blocks the same adapter rendered before
\* supplied.
C1_NoDecoratorsFromEarlierBlocks ==
    (/\ IsSome(out.body)
     /\ IsSome(call.pre) /\ IsSome(call.code)
     /\ BlockMetaStrings = {})
        => RenderedWithoutDecorators

\* C2: the language write_pre_tag stored from its lang attribute is still the
\* stored language after write_code_tag of the same block.
C2_LanguageFirstWriteWins ==
    (phase = "code" /\ IsSome(call.pre) /\ "lang" \in DOMAIN Unwrap(call.pre))
        => stored_lang = Some(Language_guess(Unwrap(call.pre)["lang"], <<>>))

\* C3: a block rendered without tag phases, or with tag phases that carried
\* empty attribute maps, gets the language of its hint alone (plaintext when
\* there is no hint).
C3_UntaggedLanguageFromHint ==
    (/\ IsSome(out.body)
     /\ call.pre \in {None, Some(EmptyMap)}
     /\ call.code \in {None, Some(EmptyMap)})
        => LET a == Unwrap(call.highlighted)
           IN  Unwrap(out.body).language =
                   IF IsSome(a.lang) THEN Language_guess(Unwrap(a.lang), a.source)
                   ELSE Language_guess(cPlaintext, a.source)

\* C4 as stated: the registered theme of the block's decorators is the theme
\* of the pre tag and of the body, whichever tag phase delivered it.
C4_Original ==
    \A t \in Registry :
        (phase \in {"code", "idle"} /\ KnownDecoratorTheme(BlockDecorators) = Some(t))
            => /\ IsSome(out.pre) => Unwrap(out.pre).theme = Some(t)
               /\ IsSome(out.body) => Unwrap(out.body).theme = Some(t)

\* C4 as amended: the registered theme named by the decorators the block
\* delivered last is the theme of the body; the registered theme named in the
\* write_pre_tag attributes is the theme of the pre tag (AutumnusAdapter's
\* HtmlLinked configuration resolves no theme).
C4_DecoratorThemeOverrides ==
    \A t \in Registry :
        /\ (/\ phase = "pre"
            /\ IsSome(out.pre)
            /\ ~AutumnusLinked
            /\ KnownDecoratorTheme(PreCustom) = Some(t))
               => Unwrap(out.pre).theme = Some(t)
        /\ (/\ IsSome(out.body)
            /\ ~AutumnusLinked
            /\ KnownDecoratorTheme(BlockDecorators) = Some(t))
               => Unwrap(out.body).theme = Some(t)

\* C4 witness: decorators that arrived with write_code_tag override a
\* different formatter-level theme in the body, after a pre tag that was
\* written with the formatter-level theme.
C4_Witness ==
    /\ IsSome(out.body) /\ IsSome(out.pre)
    /\ ~IsSome(PreCustom)
    /\ IsSome(KnownDecoratorTheme(CodeCustom))
    /\ IsSome(FormatterThemeAlone)
    /\ Unwrap(out.body).theme = KnownDecoratorTheme(CodeCustom)
    /\ Unwrap(out.body).theme # FormatterThemeAlone
    /\ Unwrap(out.pre).theme = FormatterThemeAlone

\* C5: when none of the block's data-meta strings can be tokenized, the block
\* is rendered with no decorator attributes and no phase returns an error of
\* its own.
C5_UntokenizableMetaYieldsNoDecorators ==
    (BlockMetaStrings # {} /\ \A m \in BlockMetaStrings : ~IsSome(shlex_split(m)))
        => /\ result = "Err" => call.fault
           /\ IsSome(out.body) => RenderedWithoutDecorators

ThemedKinds == {"HtmlInline", "HtmlMultiThemes", "Terminal"}

C7_UnknownDecoratorThemeIgnored ==
    /\ (phase = "pre" /\ IsSome(out.pre) /\ UnknownDecoratorTheme(PreAttrsInForce))
          => Unwrap(out.pre).theme = FormatterThemeAlone
    /\ (IsSome(out.body) /\ UnknownDecoratorTheme(stored_attrs))
          => Unwrap(out.body).theme = FormatterThemeAlone
    /\ (UnknownDecoratorTheme(stored_attrs) /\ result = "Err") => call.fault

\* C7 witness: a body rendered under decorators naming an unregistered theme,
\* with a formatter-level theme that resolves.
C7_Witness ==
    /\ IsSome(out.body)
    /\ UnknownDecoratorTheme(stored_attrs)
    /\ IsSome(FormatterThemeAlone)
    /\ result = "Ok"

\* the line wrappers of the body just rendered
Wrappers == Unwrap(out.body).wrappers
RenderedSource == Unwrap(call.highlighted).source

NewlineCount(source) == Cardinality({i \in 1..Len(source) : source[i] = "\n"})
EndsWithNewline(source) == source # <<>> /\ source[Len(source)] = "\n"

\* the i-th line of a source: the text between its (i-1)-th and i-th newline
SourceLine(source, i) ==
    LET nl == {j \in 1..Len(source) : source[j] = "\n"}
        upto(j) == Cardinality({n \in nl : n < j})
    IN  SelectSeq([j \in 1..Len(source) |-> IF upto(j) = i - 1 /\ source[j] # "\n"
                                            THEN source[j] ELSE "\n"],
                  LAMBDA c : c # "\n")

\* the text a wrapper shows: markup dropped, entities resolved
ShownText(line) ==
    LET plain == SelectSeq(line, LAMBDA x : Len(x) = 1 \/ x \in {"&lt;", "&gt;", "&amp;"})
    IN  [j \in 1..Len(plain) |->
            CASE plain[j] = "&lt;" -> "<"
              [] plain[j] = "&gt;" -> ">"
              [] plain[j] = "&amp;" -> "&"
              [] OTHER -> plain[j]]

\* C8 as stated: there are as many line wrappers as source.split('\n') has
\* pieces.
C8_Original ==
    IsSome(out.body) => Len(Wrappers) = NewlineCount(RenderedSource) + 1

\* the final newline of the source lies inside a span element: a non-blank
\* highlight event ends with it and the backend wraps the event in markup
SpanClosesAfterFinalNewline ==
    LET a == Unwrap(call.highlighted)
        b == Unwrap(out.body)
    IN  /\ EndsWithNewline(a.source)
        /\ \E k \in 1..Len(a.events) :
              /\ a.events[k].end = Len(a.source)
              /\ \E j \in (a.events[k].start + 1)..a.events[k].end :
                     a.source[j] \notin WhiteSpace
        /\ \/ formatter_config.kind = "HtmlMultiThemes"
           \/ formatter_config.kind = "HtmlLinked" /\ b.language # "PlainText"
           \/ IsSome(b.theme)

\* C8 as amended: there are as many line wrappers as lines() yields for the
\* assembled output: the pieces of source.split('\n'), less the final empty
\* piece of an empty source or of a newline-terminated source whose final
\* newline is not inside a span element.
C8_WrapperPerLine ==
    IsSome(out.body) =>
        Len(Wrappers) = NewlineCount(RenderedSource) + 1
                        - (IF \/ RenderedSource = <<>>
                              \/ /\ EndsWithNewline(RenderedSource)
                                 /\ ~SpanClosesAfterFinalNewline
                           THEN 1 ELSE 0)

\* C8 witness: a newline-terminated source of two lines rendered with two
\* wrappers, where split('\n') has three pieces.
C8_Witness ==
    /\ IsSome(out.body)
    /\ EndsWithNewline(RenderedSource)
    /\ NewlineCount(RenderedSource) = 2
    /\ Unwrap(call.highlighted).events # <<>>
    /\ Len(Wrappers) = 2

\* C9: a source of k newline-terminated lines is rendered as exactly k
\* wrappers, the i-th numbered i and showing the i-th source line.
C9_NewlineTerminatedLines ==
    (IsSome(out.body) /\ EndsWithNewline(RenderedSource)) =>
        /\ Len(Wrappers) = NewlineCount(RenderedSource)
        /\ \A i \in 1..Len(Wrappers) :
              /\ Wrappers[i].line_number = i
              /\ ShownText(Wrappers[i].line) = SourceLine(RenderedSource, i)

\* C10: a wrapper carries the resolved highlight class and style exactly when
\* its 1-based line number is in the resolved highlight set; every other
\* wrapper has the base class only and no style.
C10_HighlightByLineNumber ==
    (adapter = "Lumis" /\ IsSome(out.body)) =>
        LET h == Unwrap(out.body).highlight
        IN  \A i \in 1..Len(Wrappers) :
                LET w == Wrappers[i]
                    inSet == IsSome(h)
                             /\ \E j \in 1..Len(Unwrap(h).lines) :
                                    Unwrap(h).lines[j] = w.line_number
                IN  /\ inSet =>
                        /\ w.class_name = IF IsSome(Unwrap(h).class)
                                          THEN "line " \o Unwrap(Unwrap(h).class)
                                          ELSE "line"
                        /\ w.style_attr = IF IsSome(Unwrap(h).style)
                                          THEN " style=\"" \o Unwrap(Unwrap(h).style) \o "\""
                                          ELSE ""
                    /\ ~inSet => (w.class_name = "line" /\ w.style_attr = "")

\* C10 witness: a body with a highlighted wrapper next to a plain one.
C10_Witness ==
    /\ adapter = "Lumis" /\ IsSome(out.body)
    /\ IsSome(Unwrap(out.body).highlight)
    /\ \E i, j \in 1..Len(Wrappers) :
          /\ Wrappers[i].class_name # "line" \/ Wrappers[i].style_attr # ""
          /\ Wrappers[j].class_name = "line" /\ Wrappers[j].style_attr = ""

\* the lines a formatter-level highlight_lines option names, ranges expanded
FormatterLines(hl) ==
    LET named(n) == \E k \in 1..Len(hl.lines) : hl.lines[k].start <= n /\ n <= hl.lines[k].end
        top == IF hl.lines = <<>> THEN 0
               ELSE CHOOSE m \in {hl.lines[k].end : k \in 1..Len(hl.lines)} :
                        \A k \in 1..Len(hl.lines) : hl.lines[k].end <= m
    IN  {n \in 1..top : named(n)}

SeqRange(s) == {s[k] : k \in 1..Len(s)}

\* C11: with highlight_lines among the stored decorator attributes the
\* resolved highlight lines are the ones parsed from that attribute, also
\* when it names no valid line; without it the formatter-level lines, style
\* and class are used.
C11_DecoratorLinesTakePrecedence ==
    /\ (adapter = "Autumnus" /\ IsSome(out.body) /\ formatter_config.kind # "Terminal") =>
          LET h == Unwrap(out.body).highlight
          IN  IF IsSome(stored_attrs) /\ "highlight_lines" \in DOMAIN Unwrap(stored_attrs)
              THEN /\ IsSome(h)
                   /\ Unwrap(h).lines =
                          autumnus_parse_highlight_lines(Unwrap(stored_attrs)["highlight_lines"])
              ELSE h = formatter_config.highlight_lines
    /\ (adapter = "Lumis" /\ IsSome(out.body)) =>
        LET h == Unwrap(out.body).highlight
            c == formatter_config
        IN  IF IsSome(stored_attrs) /\ "highlight_lines" \in DOMAIN Unwrap(stored_attrs)
            THEN /\ IsSome(h)
                 /\ Unwrap(h).lines =
                        parse_highlight_lines(Unwrap(stored_attrs)["highlight_lines"])
            ELSE IF c.kind # "Terminal" /\ IsSome(c.highlight_lines)
            THEN LET hl == Unwrap(c.highlight_lines)
                 IN  /\ IsSome(h)
                     /\ SeqRange(Unwrap(h).lines) = FormatterLines(hl)
                     /\ Unwrap(h).class = IF c.kind = "HtmlLinked" THEN Some(hl.class)
                                          ELSE hl.class
                     /\ c.kind = "HtmlLinked" => Unwrap(h).style = None
                     /\ (c.kind # "HtmlLinked" /\ hl.style = None) => Unwrap(h).style = None
                     /\ (c.kind # "HtmlLinked" /\ IsSome(hl.style)) => IsSome(Unwrap(h).style)
            ELSE h = None

\* C11 witness: decorator highlight_lines that name no line, under a
\* formatter configuration with highlight lines of its own: no wrapper is
\* highlighted.
C11_Witness ==
    /\ adapter = "Lumis" /\ IsSome(out.body)
    /\ IsSome(formatter_config.highlight_lines)
    /\ IsSome(stored_attrs) /\ "highlight_lines" \in DOMAIN Unwrap(stored_attrs)
    /\ IsSome(Unwrap(out.body).highlight)
    /\ Unwrap(Unwrap(out.body).highlight).lines = <<>>
    /\ \A i \in 1..Len(Unwrap(out.body).wrappers) :
           Unwrap(out.body).wrappers[i].class_name = "line"

\* C12: the assembled output, markup dropped and entities resolved, is the
\* source: event texts and the gaps before, between and after them cover
\* every position once and in order.
C12_AssembledTextIsSource ==
    IsSome(out.body) => ShownText(Unwrap(out.body).html_output) = RenderedSource

\* C12 witness: one highlighted token with a gap before it and text after it.
C12_Witness ==
    /\ IsSome(out.body)
    /\ RenderedSource = <<"<", "a", "<">>
    /\ Len(Unwrap(call.highlighted).events) = 1
    /\ Unwrap(call.highlighted).events[1].start = 1
    /\ Unwrap(call.highlighted).events[1].end = 2
    /\ Len(Unwrap(out.body).html_output) > 3

HtmlKinds == {"HtmlInline", "HtmlLinked", "HtmlMultiThemes"}

\* C13: in the HTML backends no character of the assembled output that HTML
\* escaping replaces is written as it stands: gap text and trailing text are
\* escaped like event text.
C13_GapTextEscaped ==
    (IsSome(out.body) /\ formatter_config.kind \in HtmlKinds) =>
        \A k \in 1..Len(Unwrap(out.body).html_output) :
            Unwrap(out.body).html_output[k] \notin {"<", ">", "&"}

\* C14: the pre tag carries the backend's base class and, next to it, the
\* decorator pre_class when the attributes in force have one (all of a quoted
\* value with spaces) and the formatter-level pre_class otherwise, never both.
C14_PreClassDecoratorOverFormatter ==
    (phase = "pre" /\ IsSome(out.pre)) =>
        LET p == Unwrap(out.pre)
            a == PreAttrsInForce
        IN  /\ p.base = IF adapter = "Lumis" THEN "lumis" ELSE "athl"
            /\ p.class = IF IsSome(a) /\ "pre_class" \in DOMAIN Unwrap(a)
                         THEN Some(Join(Unwrap(a)["pre_class"]))
                         ELSE formatter_config.pre_class
            /\ ("data-meta" \in DOMAIN Unwrap(call.pre)
                /\ Unwrap(call.pre)["data-meta"] = MetaFull) => p.class = Some("a b")

\* C14 witness: a quoted decorator pre_class of two class names written in
\* place of the formatter-level pre_class.
C14_Witness ==
    /\ phase = "pre" /\ IsSome(out.pre)
    /\ formatter_config.pre_class = Some("default-pre-class")
    /\ Unwrap(out.pre).class = Some("a b")
    /\ "data-meta" \in DOMAIN Unwrap(call.pre)

\* the data-meta string write_pre_tag received for the current block
DeliveredMeta == Unwrap(call.pre)["data-meta"]

\* the entry one token stands for
TokenKey(t) ==
    LET i == IndexOf(t, "=")
    IN  Join(Trim(IF i = 0 THEN t ELSE SubSeq(t, 1, i - 1)))
TokenValue(t) ==
    LET i == IndexOf(t, "=")
    IN  IF i = 0 THEN <<"t", "r", "u", "e">> ELSE SubSeq(t, i + 1, Len(t))

\* C15: the decorator parser returns no map exactly when the metadata is
\* empty, yields no token or cannot be tokenized; otherwise the map has one
\* entry per token key (trimmed text before the first '=', or the trimmed
\* token), valued by the last token with that key (text after the first '=',
\* or "true").
C15_DecoratorParser ==
    (phase = "pre" /\ "data-meta" \in DOMAIN Unwrap(call.pre)
     /\ DeliveredMeta \in AllMetas) =>
        LET toks == shlex_split(DeliveredMeta)
        IN  IF ~IsSome(toks) \/ Unwrap(toks) = <<>>
            THEN stored_attrs = None
            ELSE LET ts == Unwrap(toks)
                 IN  /\ IsSome(stored_attrs)
                     /\ DOMAIN Unwrap(stored_attrs) = {TokenKey(ts[k]) : k \in 1..Len(ts)}
                     /\ \A k \in 1..Len(ts) :
                            (\A j \in (k + 1)..Len(ts) : TokenKey(ts[j]) # TokenKey(ts[k]))
                                => Unwrap(stored_attrs)[TokenKey(ts[k])] = TokenValue(ts[k])

\* C15 witness: a flag overwritten by a later key=value token of the same key.
C15_Witness ==
    /\ phase = "pre" /\ "data-meta" \in DOMAIN Unwrap(call.pre)
    /\ DeliveredMeta = <<"a", " ", "a", "=">>
    /\ stored_attrs = Some([x \in {"a"} |-> <<>>])

\* the text of a decimal numeral, an optional leading '+' allowed
IsNumeral(t) ==
    LET d == IF t # <<>> /\ t[1] = "+" THEN SubSeq(t, 2, Len(t)) ELSE t
    IN  d # <<>> /\ \A i \in 1..Len(d) : d[i] \in Digits
NumeralValue(t) == DecimalValue(IF t[1] = "+" THEN SubSeq(t, 2, Len(t)) ELSE t)

\* the line numbers one comma-separated segment names
SegmentLines(segment) ==
    LET t == Trim(segment)
        dash == IndexOf(t, "-")
        a == Trim(SubSeq(t, 1, dash - 1))
        b == Trim(SubSeq(t, dash + 1, Len(t)))
    IN  IF dash = 0
        THEN IF IsNumeral(t) THEN <<NumeralValue(t)>> ELSE <<>>
        ELSE IF IsNumeral(a) /\ IsNumeral(b) /\ NumeralValue(a) <= NumeralValue(b)
        THEN [i \in 1..(NumeralValue(b) - NumeralValue(a) + 1) |-> NumeralValue(a) + i - 1]
        ELSE <<>>

RECURSIVE NamedLines(_)
\* the line numbers the segments name, in order of appearance
NamedLines(segments) ==
    IF segments = <<>> THEN <<>>
    ELSE SegmentLines(Head(segments)) \o NamedLines(Tail(segments))

RECURSIVE RangesExpanded(_)
\* the numbers of a sequence of inclusive ranges, in order
RangesExpanded(ranges) ==
    IF ranges = <<>> THEN <<>>
    ELSE LET r == Head(ranges)
         IN  [i \in 1..(IF r.end >= r.start THEN r.end - r.start + 1 ELSE 0) |->
                 r.start + i - 1]
             \o RangesExpanded(Tail(ranges))

\* the line spec of the decorator in force, when it is one of AllLineSpecs
StoredLineSpec == Unwrap(stored_attrs)["highlight_lines"]

C17_EffectiveLanguage ==
    IsSome(out.body) =>
        LET a == Unwrap(call.highlighted)
        IN  Unwrap(out.body).language =
                IF IsSome(stored_lang) THEN Unwrap(stored_lang)
                ELSE IF IsSome(a.lang) THEN Language_guess(Unwrap(a.lang), a.source)
                ELSE Language_guess(cPlaintext, a.source)

\* C17 witness: a stored language that differs from the one the hint names.
C17_Witness ==
    /\ IsSome(out.body)
    /\ stored_lang = Some("Elixir")
    /\ Unwrap(call.highlighted).lang = Some(cRust)
    /\ Unwrap(out.body).language = "Elixir"

\* the opening tags html::span_linked writes for the scopes of the events
LinkedOpenTags ==
    LET scopes == {Unwrap(call.highlighted).events[k].scope :
                      k \in 1..Len(Unwrap(call.highlighted).events)}
    IN  {"<span class=\"" \o sc \o "\">" : sc \in scopes}

\* C18: under the Linked backend a plaintext block gets no linked span for
\* any event (and no markup at all when no theme is in force), while every
\* line is wrapped and numbered and the lines of the resolved highlight set
\* carry its class.
C18_LinkedPlaintextNoSpans ==
    (/\ adapter = "Lumis"
     /\ formatter_config.kind = "HtmlLinked"
     /\ IsSome(out.body)
     /\ Unwrap(out.body).language = "PlainText") =>
        LET b == Unwrap(out.body)
        IN  /\ \A k \in 1..Len(b.html_output) : b.html_output[k] \notin LinkedOpenTags
            /\ b.theme = None =>
                  \A k \in 1..Len(b.html_output) :
                      Len(b.html_output[k]) = 1
                      \/ b.html_output[k] \in {"&lt;", "&gt;", "&amp;"}
            /\ Len(b.wrappers) = NewlineCount(RenderedSource)
                                  + (IF EndsWithNewline(RenderedSource) THEN 0 ELSE 1)
            /\ \A i \in 1..Len(b.wrappers) :
                  /\ b.wrappers[i].line_number = i
                  /\ (IsSome(b.highlight) /\ i \in SeqRange(Unwrap(b.highlight).lines)) =>
                        /\ IsSome(Unwrap(b.highlight).class)
                        /\ b.wrappers[i].class_name =
                               "line " \o Unwrap(Unwrap(b.highlight).class)

\* C18 witness: a plaintext block with token events under the Linked backend,
\* its highlighted line carrying the formatter's highlight class.
C18_Witness ==
    /\ adapter = "Lumis"
    /\ formatter_config.kind = "HtmlLinked"
    /\ IsSome(out.body)
    /\ Unwrap(out.body).language = "PlainText"
    /\ Unwrap(call.highlighted).events # <<>>
    /\ Unwrap(out.body).wrappers[1].class_name = "line hl"
    /\ Unwrap(out.body).wrappers[1].line = <<"a">>

\* C19: with a Terminal formatter configuration write_pre_tag and
\* write_code_tag write nothing.
C19_TerminalWritesNoTags ==
    formatter_config.kind = "Terminal" => (out.pre = None /\ out.code = None)

\* the block in progress got its decorators from write_code_tag only
MetaOnlyInCodeTag == ~IsSome(PreCustom) /\ IsSome(CodeCustom)

\* C20: on a fresh adapter, a block whose decorators arrive only with
\* write_code_tag has its pre tag written with the formatter-level pre_class
\* and theme, and its body rendered with the decorator theme (where the
\* backend resolves a theme) and the decorator highlight lines.
C20_DecoratorsFromCodeTag ==
    (phase \in {"code", "idle"} /\ IsSome(call.pre) /\ MetaOnlyInCodeTag) =>
        LET d == Unwrap(CodeCustom)
        IN  /\ IsSome(out.pre) =>
                  /\ Unwrap(out.pre).class = formatter_config.pre_class
                  /\ Unwrap(out.pre).theme = FormatterThemeAlone
            /\ (IsSome(out.body) /\ ~AutumnusLinked /\ IsSome(KnownDecoratorTheme(CodeCustom))) =>
                  Unwrap(out.body).theme = KnownDecoratorTheme(CodeCustom)
            /\ (IsSome(out.body) /\ "highlight_lines" \in DOMAIN d
                /\ ~(adapter = "Autumnus" /\ formatter_config.kind = "Terminal")) =>
                  /\ IsSome(Unwrap(out.body).highlight)
                  /\ LET lines == Unwrap(Unwrap(out.body).highlight).lines
                     IN  (IF adapter = "Lumis" THEN lines ELSE RangesExpanded(lines))
                            = NamedLines(Split(d["highlight_lines"], ","))

\* C20 witness: formatter theme, pre_class and highlight lines on the pre tag
\* side, the decorator's theme and line on the body side.
C20_Witness ==
    /\ adapter = "Lumis" /\ IsSome(out.body) /\ IsSome(out.pre)
    /\ MetaOnlyInCodeTag
    /\ Unwrap(out.pre).class = Some("default-pre-class")
    /\ Unwrap(out.pre).theme = Some(ThemeNord)
    /\ Unwrap(out.body).theme = Some(ThemeGithubLight)
    /\ Unwrap(Unwrap(out.body).highlight).lines = <<1>>
    /\ Unwrap(formatter_config.highlight_lines).lines = <<Single(2)>>

\* the include_highlights setting of the formatter configuration
FormatterIncludeHighlights ==
    formatter_config.kind \in {"HtmlInline", "HtmlMultiThemes"}
    /\ formatter_config.include_highlights

\* C21: under the Inline and MultiThemes backends the body is rendered with
\* include_highlights on exactly when the formatter configuration turns it on
\* or the stored decorator include_highlights has the value "true"; any other
\* decorator value leaves the formatter-level setting in force.
C21_IncludeHighlightsOnlyWhenTrue ==
    (IsSome(out.body) /\ formatter_config.kind \in {"HtmlInline", "HtmlMultiThemes"}) =>
        (Unwrap(out.body).include_highlights
            <=> \/ FormatterIncludeHighlights
                \/ /\ IsSome(stored_attrs)
                   /\ "include_highlights" \in DOMAIN Unwrap(stored_attrs)
                   /\ Unwrap(stored_attrs)["include_highlights"] = <<"t", "r", "u", "e">>)

\* what the callback that ran last wrote
LastPhaseOutput ==
    IF IsSome(call.highlighted) THEN out.body
    ELSE IF IsSome(call.code) THEN out.code
    ELSE out.pre

\* C22: in AutumnusAdapter a phase in which building the backend formatter
\* fails returns an error and has written nothing; a phase that returned
\* success has written its output, the tag phases of the Terminal backend
\* (which write nothing by design) apart.
C22_BuildFailureIsAnError ==
    (adapter = "Autumnus" /\ result # "none") =>
        /\ call.fault => (result = "Err" /\ LastPhaseOutput = None)
        /\ (result = "Ok" /\ LastPhaseOutput = None) =>
              (formatter_config.kind = "Terminal" /\ ~IsSome(call.highlighted))

\* C22 witness: the build fails in write_highlighted after both tags of the
\* block were written.
C22_Witness ==
    /\ adapter = "Autumnus"
    /\ IsSome(out.pre) /\ IsSome(out.code)
    /\ IsSome(call.highlighted) /\ call.fault
    /\ result = "Err" /\ out.body = None

\* C24: parsing the comma-joined text of a sequence of well-formed line specs
\* yields the line numbers of the specs, each range expanded inclusively, in
\* the order of the text: what convert_line_specs yields for the specs.
C24_LineSpecRoundTrip ==
    (/\ IsSome(out.body)
     /\ IsSome(stored_attrs)
     /\ "highlight_lines" \in DOMAIN Unwrap(stored_attrs)) =>
        \A specs \in WellFormedSpecSeqs :
            RenderSpecs(specs) = StoredLineSpec =>
                LET h == Unwrap(Unwrap(out.body).highlight)
                IN  IF adapter = "Lumis"
                    THEN /\ h.lines = RangesExpanded(specs)
                         /\ h.lines = convert_line_specs(specs)
                    ELSE RangesExpanded(h.lines) = RangesExpanded(specs)

\* C24 witness: a range followed by a single line below it, parsed back in
\* the order of the text.
C24_Witness ==
    /\ adapter = "Lumis" /\ IsSome(out.body)
    /\ IsSome(stored_attrs)
    /\ "highlight_lines" \in DOMAIN Unwrap(stored_attrs)
    /\ StoredLineSpec = <<"2", "-", "1", "2", ",", "1">>
    /\ Unwrap(Unwrap(out.body).highlight).lines = <<2, 3, 4, 5, 6, 7, 8, 9, 10, 11, 12, 1>>
    /\ Unwrap(out.body).wrappers[1].style_attr # ""

\* the step is a write_pre_tag / a write_code_tag call
IsPreTagStep == phase = "idle" /\ IsSome(call'.pre) /\ call'.highlighted = None
IsCodeTagStep == phase = "pre" /\ IsSome(call'.code)

\* the attribute map the tag phase of the step received
StepAttributes == IF phase = "idle" THEN Unwrap(call'.pre) ELSE Unwrap(call'.code)

\* C25: a tag phase stores the map parsed from its data-meta attribute when
\* that is a non-empty map and leaves the stored attributes unchanged
\* otherwise; write_code_tag given the data-meta string write_pre_tag got for
\* the block leaves the stored attributes as they are.
C25_StoredAttrsOverwrittenOnlyByMeta ==
    [][(IsPreTagStep \/ IsCodeTagStep) =>
          /\ stored_attrs' = IF IsSome(custom_attrs(StepAttributes))
                                 /\ DOMAIN Unwrap(custom_attrs(StepAttributes)) # {}
                              THEN custom_attrs(StepAttributes)
                              ELSE stored_attrs
          /\ (/\ IsCodeTagStep
              /\ "data-meta" \in DOMAIN StepAttributes
              /\ "data-meta" \in DOMAIN Unwrap(call.pre)
              /\ StepAttributes["data-meta"] = Unwrap(call.pre)["data-meta"])
                 => stored_attrs' = stored_attrs]_vars

\* C25 witness: both tag phases of a block were given the same decorator
\* string and the stored attributes are the map parsed from it.
C25_Witness ==
    /\ phase = "code"
    /\ "data-meta" \in DOMAIN Unwrap(call.pre)
    /\ "data-meta" \in DOMAIN Unwrap(call.code)
    /\ Unwrap(call.pre)["data-meta"] = Unwrap(call.code)["data-meta"]
    /\ IsSome(stored_attrs)
    /\ stored_attrs = PreCustom

\* the style of the resolved highlight lines is to be derived from the theme:
\* decorator highlight_lines without a style of their own (or with the style
\* "theme") outside the Linked backend, or formatter-level highlight lines
\* whose style is Theme
StyleDerivedFromTheme ==
    IF IsSome(stored_attrs) /\ "highlight_lines" \in DOMAIN Unwrap(stored_attrs)
    THEN /\ formatter_config.kind # "HtmlLinked"
         /\ \/ "highlight_lines_style" \notin DOMAIN Unwrap(stored_attrs)
            \/ Unwrap(stored_attrs)["highlight_lines_style"] = cTheme
    ELSE /\ formatter_config.kind \in {"HtmlInline", "HtmlMultiThemes"}
         /\ IsSome(formatter_config.highlight_lines)
         /\ Unwrap(formatter_config.highlight_lines).style = Some(StyleTheme)

\* C26: when the highlight style is derived from a theme without a
\* highlighted scope, it is the fixed light background for a theme whose
\* appearance is Light and the fixed dark background for a theme whose
\* appearance is Dark, whatever the name of the theme.
C26_FallbackByAppearanceAlone ==
    (/\ adapter = "Lumis" /\ IsSome(out.body)
     /\ StyleDerivedFromTheme
     /\ IsSome(Unwrap(out.body).theme)
     /\ Unwrap(Unwrap(out.body).theme).highlighted = None) =>
        /\ IsSome(Unwrap(out.body).highlight)
        /\ Unwrap(Unwrap(out.body).highlight).style =
               Some(IF Unwrap(Unwrap(out.body).theme).appearance = "Light"
                    THEN "background-color: #e7eaf0;"
                    ELSE "background-color: #3b4252;")

\* C27: with a highlight_lines decorator in force the class of the highlighted
\* lines is the value of the highlight_lines_class decorator when there is
\* one; without it the Linked backend uses the class "highlighted" and the
\* other backends none.  LumisAdapter, and AutumnusAdapter under HtmlLinked.
C27_HighlightClassFromDecorator ==
    (/\ IsSome(out.body)
     /\ IsSome(stored_attrs)
     /\ "highlight_lines" \in DOMAIN Unwrap(stored_attrs)
     /\ adapter = "Lumis" \/ AutumnusLinked) =>
        LET attrs == Unwrap(stored_attrs)
            class == Unwrap(Unwrap(out.body).highlight).class
            linked == formatter_config.kind = "HtmlLinked"
        IN  IF "highlight_lines_class" \in DOMAIN attrs
            THEN class = IF adapter = "Lumis"
                         THEN Some(Join(attrs["highlight_lines_class"]))
                         ELSE Join(attrs["highlight_lines_class"])
            ELSE IF linked
            THEN class = IF adapter = "Lumis" THEN Some("highlighted") ELSE "highlighted"
            ELSE class = None

\* C28: in LumisAdapter a write_highlighted call whose highlighter fails
\* returns an error and writes nothing, no line wrapper and no markup of the
\* events delivered before the failure.
C28_HighlighterFailureWritesNothing ==
    (adapter = "Lumis" /\ IsSome(call.highlighted) /\ call.fault) =>
        (result = "Err" /\ out.body = None)

\* C28 witness: the highlighter fails after it delivered events for a block
\* whose tags were written.
C28_Witness ==
    /\ adapter = "Lumis"
    /\ IsSome(out.pre) /\ IsSome(out.code)
    /\ IsSome(call.highlighted) /\ call.fault
    /\ Unwrap(call.highlighted).events # <<>>
    /\ result = "Err" /\ out.body = None

\* C29: the language write_code_tag put on the code element of a block is the
\* language write_highlighted renders the block in, also when both tag phases
\* got empty attribute maps.
C29_CodeTagLanguageIsBodyLanguage ==
    (IsSome(out.body) /\ IsSome(out.code)) =>
        Unwrap(out.code).lang = Unwrap(out.body).language

\* the values of the two fields after a whole tag callback of the threads:
\* nothing before the first, then the decorators and the language of one call
UnitStates ==
    {[attrs |-> None, lang |-> None],
     [attrs |-> custom_attrs(SharedTagAttributes.pre), lang |-> Some("Rust")],
     [attrs |-> custom_attrs(SharedTagAttributes.code), lang |-> Some("Elixir")]}

\* thread t has made every access of a write_highlighted call that did not fail
RenderComplete(t) ==
    /\ threads[t].phase = "highlighted"
    /\ threads[t].steps[threads[t].pc].op = "return"
    /\ ~threads[t].failed

\* C23: whatever the interleaving of the callbacks of the threads, the stored
\* language and the decorator-derived values (theme, include_highlights,
\* highlight lines) a write_highlighted call used are those of one state of
\* the two fields taken as a unit: the language and the decorators that one
\* and the same tag callback stored.
C23_StateReadAsOneUnit ==
    \A t \in Threads :
        RenderComplete(t) =>
            \E u \in UnitStates :
                LET l == threads[t].locals
                IN  /\ l.stored_lang = u.lang
                    /\ IF adapter = "Lumis"
                       THEN /\ l.theme = LumisTheme(formatter_config, u.attrs)
                            /\ l.include_highlights =
                                   should_include_highlights(formatter_config, u.attrs)
                            /\ l.highlight_config =
                                   highlight_lines_config(formatter_config, u.attrs, l.theme)
                       ELSE l.stored_attrs = u.attrs

\* the Mutexes thread t owns
HeldBy(t) == {l \in DOMAIN locks : locks[l] = t}

\* thread t is about to take a Mutex
AtLock(t) ==
    threads[t].phase # "none" /\ threads[t].steps[threads[t].pc].op = "lock"

\* thread t waits for a Mutex that is owned
Blocked(t) ==
    AtLock(t) /\ locks[threads[t].steps[threads[t].pc].lock] # "free"

\* C30: a thread about to take a Mutex owns none (so it never owns two and
\* never takes again the one it owns), a thread that is outside a callback or
\* about to return, on the error path too, owns none, and at every moment
\* some thread can take a step: no interleaving deadlocks.
C30_LocksNeverNested ==
    /\ \A t \in Threads :
          /\ Cardinality(HeldBy(t)) <= 1
          /\ AtLock(t) => HeldBy(t) = {}
          /\ (threads[t].phase = "none"
              \/ threads[t].steps[threads[t].pc].op = "return") => HeldBy(t) = {}
    /\ \E t \in Threads : ~Blocked(t)

\* C30 witness: a thread inside write_highlighted waits for the Mutex that
\* another thread, inside a tag callback, owns.
C30_Witness ==
    \E t, w \in Threads :
        /\ t # w
        /\ threads[w].phase = "highlighted"
        /\ threads[t].phase \in {"pre", "code"}
        /\ Blocked(w)
        /\ locks[threads[w].steps[threads[w].pc].lock] = t

====
